---- MODULE Spec2Model ----
(***************************************************************************)
(* State-machine model of the back-to-one front end: the looks view        *)
(* (LooksManagement), the schedule view (ScheduleBuilder) and the call     *)
(* sheet view (CallSheetGenerator), each with its local React state, the   *)
(* rows of the remote store it talks to and the requests it has in flight. *)
(*                                                                         *)
(* A handler runs synchronously up to its first await; the request it      *)
(* issued stays in flight until the store answers, and the rest of the     *)
(* handler then runs with the values the handler closed over when it was   *)
(* called (the state of the render that created it).                       *)
(***************************************************************************)
EXTENDS Integers, Sequences, FiniteSets, Bags, TLC

\* ------------------------------------------------------------------ bounds
\* The number of handler calls that issue a request in one behaviour.
MaxOps == 2

\* ------------------------------------------------------------- vocabulary
Null == "null"
ThisProd == "p1"
OtherProd == "p2"

Names == {"", " ", "A"}

\* A trim that removes nothing
TrimNothing(s) == s

\* String.prototype.trim on the strings the model types into forms.
Trim(s) ==
  CASE s = " " -> ""
    [] s = " Call " -> "Call"
    [] s = " d " -> "d"
    [] s = " Ann " -> "Ann"
    [] OTHER -> s

\* JavaScript's a || b on the values a field can hold.
Undefined == "undefined"
Falsy(v) == v \in {Undefined, Null, ""}
OrElse(v, dflt) == IF Falsy(v) THEN dflt ELSE v

\* Times of day as stored ("HH:MM"), in ascending order.
Times == <<"09:00", "10:00", "11:30">>
TimeRank(t) == CHOOSE k \in 1..Len(Times) : Times[k] = t

Urls == {"u1"}
\* URL.createObjectURL gives a new URL at every call: the one sent to the store
\* and the one kept locally are different URLs.
BlobSent == "blob1"
BlobKept == "blob2"

Min(S) == CHOOSE x \in S : \A y \in S : x <= y
Max(S) == CHOOSE x \in S : \A y \in S : y <= x

Range(s) == {s[k] : k \in 1..Len(s)}

\* All enumerations of the finite set S in which the key (a function on S) never
\* decreases: what the store's order(<field>, ascending) may return.
OrderedBy(S, key) ==
  {s \in [1..Cardinality(S) -> S] :
     /\ \A a, b \in 1..Cardinality(S) : a # b => s[a] # s[b]
     /\ \A a, b \in 1..Cardinality(S) : a < b => key[s[a]] <= key[s[b]]}

VARIABLES
  view,           \* the page that is mounted: "looks", "schedule" or "callsheet"
  ops,            \* handler calls that issued a request so far
  \* looks view
  looksProduction,  \* looks view: {} (null) or {the production's id and name}
  productionAsked,  \* looks view: the production query has not answered yet
  looks,          \* local list: a sequence of references to look objects
  heap,           \* the look objects the view's lists refer to
  newLookName,    \* the name input of the create form
  loading,        \* looks view: the initial load has not completed
  uploading,      \* {} (null) or {lookId}
  remoteLooks,    \* rows of the store's looks collection
  nextLookId,     \* the identity the store gives the next inserted look
  lpend,          \* bag of looks-view requests in flight
  \* schedule view
  schedProduction, \* {} (null) or {production}
  scheduleItems,  \* local list of schedule items
  templates,      \* local list of templates
  schedLoading,   \* schedule view: loadData has not completed
  showAddForm,
  newItem,        \* the add form
  remoteItems,    \* rows of the store's schedule_items collection
  nextItemId,     \* the identity the store gives the next inserted item
  spend,          \* bag of schedule-view requests in flight
  \* call-sheet view
  sheetProduction, \* {} (null) or {production}
  crew,           \* local list of crew members
  sheetLooks,     \* local list of looks (id, name, sequence_order)
  sheetLoading,   \* call-sheet view: loadData has not completed
  generating,     \* call-sheet view: an export is running
  saved,          \* the document pdf.save wrote last, if any
  newCrew,        \* the new-crew-member form
  remoteProduction, \* this production's row of the store's productions collection
  remoteCrew,     \* rows of the store's crew_members collection
  nextCrewId,     \* the identity the store gives the next inserted crew member
  cpend,          \* bag of call-sheet-view requests in flight
  \* display derivations
  applied,        \* the derivation that was applied to input, or "none"
  input,          \* the value a derivation is applied to
  output,         \* what it returned
  \* bookkeeping for stating properties
  last            \* the step just taken: handler, argument, requests issued, alert

looksVars == <<looksProduction, productionAsked, looks, heap, newLookName, loading, uploading,
              remoteLooks, nextLookId, lpend>>
schedVars == <<schedProduction, scheduleItems, templates, schedLoading, showAddForm,
               newItem, remoteItems, nextItemId, spend>>
sheetVars == <<sheetProduction, crew, sheetLooks, sheetLoading, generating, saved, newCrew,
               remoteProduction, remoteCrew, nextCrewId, cpend>>
pureVars == <<applied, input, output>>
vars == <<view, ops, looksVars, schedVars, sheetVars, pureVars, last>>

\* op: the handler, with ":ok" or ":error" for the part that runs on the store's
\* answer; arg: its argument; writes: the requests this step issued; alert: it
\* raised an alert; ctx: the path the handler took before.
StepCtx(op, arg, writes, alert, ctx) ==
  [op |-> op, arg |-> arg, writes |-> writes, alert |-> alert, ctx |-> ctx]

Step(op, arg, writes, alert) == StepCtx(op, arg, writes, alert, "")

\* How the three reads of a load went, the first to the last: "+" for data, "-"
\* for an error.
Outcome(a, b, c) ==
  (IF a THEN "+" ELSE "-") \o (IF b THEN "+" ELSE "-") \o (IF c THEN "+" ELSE "-")

\* Each view is a page of its own: one is mounted, and stays mounted.
Mounted(v) ==
  /\ view = v /\ UNCHANGED view
  /\ v # "looks" => UNCHANGED looksVars
  /\ v # "schedule" => UNCHANGED schedVars
  /\ v # "callsheet" => UNCHANGED sheetVars
  /\ UNCHANGED pureVars

\* ------------------------------------------------------------- looks view
\* Sequence indices of the looks the store may hold for this production when the
\* view mounts, left by earlier visits: none; two; two whose former first
\* sibling has been deleted.
InitialSeqs == {<<>>, <<0, 1>>, <<1, 2>>}

\* Three looks whose indices no longer start at 0: what creating three looks,
\* deleting the first and creating one more leaves behind.
ShiftedSeq == <<1, 2, 3>>

LookIds == 1..(Max({Len(q) : q \in InitialSeqs \cup {ShiftedSeq}}) + MaxOps)

\* A look object is named by its look's identity and a generation: a copy made
\* by {...look} is the next generation of the same look.
Gens == 0..MaxOps
Refs == LookIds \X Gens

NoObj == [id |-> 0, name |-> "free", seq |-> 0, img |-> Null]

LookRow(id, pid, name, seq, img) ==
  [id |-> id, pid |-> pid, name |-> name, seq |-> seq, img |-> img]

ObjOf(row) == [id |-> row.id, name |-> row.name, seq |-> row.seq, img |-> row.img]

\* A request in flight, with the looks array its handler closed over.
Req(kind, id, seq, img, name, snap) ==
  [kind |-> kind, id |-> id, seq |-> seq, img |-> img, name |-> name, snap |-> snap]

Pending(bag) == BagToSet(bag)

\* References still held by the rendered list or by a suspended handler.
Live(lk, bag) == Range(lk) \cup UNION {Range(r.snap) : r \in Pending(bag)}

\* Objects nothing refers to are dropped and the generations of each look are
\* renumbered from 0 in their order of creation (the name of an object carries
\* no meaning beyond its identity).
Rename(live, ref) ==
  <<ref[1], Cardinality({g \in Gens : g < ref[2] /\ <<ref[1], g>> \in live})>>

RenameList(live, lk) == [k \in 1..Len(lk) |-> Rename(live, lk[k])]

Normalize(h, lk, bag) ==
  LET live == Live(lk, bag)
      ren(r) == [r EXCEPT !.snap = RenameList(live, r.snap)]
  IN [heap  |-> [ref \in Refs |->
                   IF \E old \in live : Rename(live, old) = ref
                   THEN h[CHOOSE old \in live : Rename(live, old) = ref]
                   ELSE NoObj],
      looks |-> RenameList(live, lk),
      pend  |-> [q \in {ren(r) : r \in Pending(bag)} |->
                   bag[CHOOSE r \in Pending(bag) : ren(r) = q]]]

\* The generation a new copy of look id gets.
NextGen(h, id) == Max({g + 1 : g \in {x \in Gens : h[<<id, x>>] # NoObj}} \cup {0})

\* looks.filter(look => look.id !== lookId), over references
RECURSIVE WithoutId(_, _, _)
WithoutId(lk, h, id) ==
  IF lk = <<>> THEN <<>>
  ELSE (IF h[Head(lk)].id # id THEN <<Head(lk)>> ELSE <<>>) \o WithoutId(Tail(lk), h, id)

LocalIds == {heap[looks[k]].id : k \in 1..Len(looks)}

\* The view as rendered: the look records, in list order.
Shown == [k \in 1..Len(looks) |-> heap[looks[k]]]

\* Rows the store may hold when the view mounts: another production's look and
\* this production's looks.
ForeignLook == LookRow(0, OtherProd, "A", 0, Null)
StoreOf(q) == {ForeignLook} \cup {LookRow(k, ThisProd, "A", q[k], Null) : k \in 1..Len(q)}
InitialLooks == {StoreOf(q) : q \in InitialSeqs}

LooksOver(stores) ==
  /\ looksProduction = {}
  /\ productionAsked = TRUE
  /\ looks = <<>>
  /\ heap = [r \in Refs |-> NoObj]
  /\ newLookName = ""
  /\ loading = TRUE
  /\ uploading = {}
  /\ remoteLooks \in stores
  /\ nextLookId = Max({r.id : r \in remoteLooks}) + 1
  /\ lpend = EmptyBag

LooksInit == LooksOver(IF view = "schedule" THEN {{ForeignLook}} ELSE InitialLooks)

\* select('*').eq('production_id', params.id).order('sequence_order')
SelectLooks(rows) ==
  LET mine == {r \in rows : r.pid = ThisProd}
  IN OrderedBy(mine, [r \in mine |-> r.seq])

\* loadLooks: the answer to the query issued on mount.
LoadLooks(ok) ==
  /\ Mounted("looks") /\ loading
  /\ IF ok
     THEN \E data \in SelectLooks(remoteLooks) :
            /\ looks' = [k \in 1..Len(data) |-> <<data[k].id, 0>>]
            /\ heap' = [ref \in Refs |->
                          IF ref[2] = 0 /\ \E k \in 1..Len(data) : data[k].id = ref[1]
                          THEN ObjOf(data[CHOOSE k \in 1..Len(data) : data[k].id = ref[1]])
                          ELSE NoObj]
     ELSE UNCHANGED <<looks, heap>>
  /\ loading' = FALSE
  /\ last' = Step(IF ok THEN "loadLooks:ok" ELSE "loadLooks:error", 0, 0, FALSE)
  /\ UNCHANGED <<newLookName, uploading, remoteLooks, nextLookId, lpend, ops,
                 looksProduction, productionAsked>>

\* loadProduction that sets the production whatever the answer
LoadProductionUnchecked(ok) ==
  /\ Mounted("looks") /\ productionAsked
  /\ productionAsked' = FALSE
  /\ looksProduction' = {[id |-> ThisProd, name |-> IF ok THEN remoteProduction.name ELSE ""]}
  /\ last' = Step(IF ok THEN "loadProduction:ok" ELSE "loadProduction:error", 0, 0, FALSE)
  /\ UNCHANGED <<ops, looks, heap, newLookName, loading, uploading, remoteLooks, nextLookId,
                 lpend>>

\* loadProduction: the answer to the other query issued on mount.
LoadProduction(ok) ==
  /\ Mounted("looks") /\ productionAsked
  /\ productionAsked' = FALSE
  /\ looksProduction' = IF ok THEN {[id |-> ThisProd, name |-> remoteProduction.name]}
                        ELSE looksProduction
  /\ last' = Step(IF ok THEN "loadProduction:ok" ELSE "loadProduction:error", 0, 0, FALSE)
  /\ UNCHANGED <<ops, looks, heap, newLookName, loading, uploading, remoteLooks, nextLookId,
                 lpend>>

\* The user acts while the budget of calls lasts.
CanIssue == ops < MaxOps

\* onChange of the name input
SetNewLookName(n) ==
  /\ Mounted("looks") /\ ~loading /\ CanIssue
  /\ n # newLookName
  /\ newLookName' = n
  /\ last' = Step("setNewLookName", 0, 0, FALSE)
  /\ UNCHANGED <<looks, heap, loading, uploading, remoteLooks, nextLookId, lpend, ops,
                 looksProduction, productionAsked>>

\* A next index that also steps over the creations still awaiting their answer
NextOrderReserving(lk, h) ==
  (IF Len(lk) > 0 THEN Max({h[lk[k]].seq : k \in 1..Len(lk)}) + 1 ELSE 0)
    + Cardinality({r \in BagToSet(lpend) : r.kind = "insert"})

\* looks.length > 0 ? Math.max(...looks.map(l => l.sequence_order)) + 1 : 0
NextOrder(lk, h) ==
  IF Len(lk) > 0 THEN Max({h[lk[k]].seq : k \in 1..Len(lk)}) + 1 ELSE 0

\* createLook, up to the await of the insert
CreateLook ==
  /\ Mounted("looks") /\ ~loading /\ CanIssue
  /\ IF Trim(newLookName) = ""
     THEN /\ last' = Step("createLook", 0, 0, FALSE)
          /\ UNCHANGED <<ops, looksVars>>
     ELSE /\ lpend' = lpend (+) SetToBag({Req("insert", 0, NextOrder(looks, heap), Null,
                                              Trim(newLookName), looks)})
          /\ last' = Step("createLook", 0, 1, FALSE)
          /\ ops' = ops + 1
          /\ UNCHANGED <<looks, heap, newLookName, loading, uploading, remoteLooks, nextLookId,
                         looksProduction, productionAsked>>

Commit(h, lk, bag) ==
  LET n == Normalize(h, lk, bag)
  IN looks' = n.looks /\ heap' = n.heap /\ lpend' = n.pend

\* createLook, from the insert's answer on
CreateLookDone(r, ok) ==
  /\ Mounted("looks") /\ r \in Pending(lpend) /\ r.kind = "insert"
  /\ IF ok
     THEN LET row == LookRow(nextLookId, ThisProd, r.name, r.seq, Null)
              ref == <<row.id, 0>>
          IN /\ remoteLooks' = remoteLooks \cup {row}
             /\ nextLookId' = nextLookId + 1
             /\ Commit([heap EXCEPT ![ref] = ObjOf(row)], r.snap \o <<ref>>,
                       lpend (-) SetToBag({r}))
             /\ newLookName' = ""
             /\ last' = Step("createLook:ok", row.id, 0, FALSE)
     ELSE /\ Commit(heap, looks, lpend (-) SetToBag({r}))
          /\ last' = Step("createLook:error", 0, 0, FALSE)
          /\ UNCHANGED <<newLookName, remoteLooks, nextLookId>>
  /\ UNCHANGED <<loading, uploading, ops,
                 looksProduction, productionAsked>>

\* looks.map(look => look.id === lookId ? { ...look, image_url } : look): the
\* matching look is copied into a new object, the others are shared.
RECURSIVE WithImage(_, _, _, _)
WithImage(lk, h, id, url) ==
  IF lk = <<>> THEN [list |-> <<>>, heap |-> h]
  ELSE IF h[Head(lk)].id = id
       THEN LET ref  == <<id, NextGen(h, id)>>
                rest == WithImage(Tail(lk), [h EXCEPT ![ref] = [h[Head(lk)] EXCEPT !.img = url]],
                                  id, url)
            IN [list |-> <<ref>> \o rest.list, heap |-> rest.heap]
       ELSE LET rest == WithImage(Tail(lk), h, id, url)
            IN [list |-> <<Head(lk)>> \o rest.list, heap |-> rest.heap]

\* update({ image_url }).eq('id', lookId) on the store
StoreSetImage(rows, id, url) ==
  {IF r.id = id THEN [r EXCEPT !.img = url] ELSE r : r \in rows}

\* update({ sequence_order }).eq('id', lookId) on the store
StoreSetSeq(rows, id, seq) ==
  {IF r.id = id THEN [r EXCEPT !.seq = seq] ELSE r : r \in rows}

\* A delete that is not restricted to one identity
StoreDeleteEvery(rows, id) == {r \in rows : r.pid # ThisProd}

\* delete().eq('id', lookId) on the store
StoreDelete(rows, id) == {r \in rows : r.id # id}

\* updateImageUrl, up to the await of the update
UpdateImageUrl(lookId, imageUrl) ==
  /\ Mounted("looks") /\ ~loading /\ CanIssue
  /\ lookId \in LocalIds
  /\ lpend' = lpend (+) SetToBag({Req("image", lookId, 0, imageUrl, "", looks)})
  /\ last' = Step("updateImageUrl", lookId, 1, FALSE)
  /\ ops' = ops + 1
  /\ UNCHANGED <<looks, heap, newLookName, loading, uploading, remoteLooks, nextLookId,
                 looksProduction, productionAsked>>

\* updateImageUrl, from the update's answer on
UpdateImageUrlDone(r, ok) ==
  /\ Mounted("looks") /\ r \in Pending(lpend) /\ r.kind = "image"
  /\ IF ok
     THEN LET new == WithImage(r.snap, heap, r.id, r.img)
          IN /\ remoteLooks' = StoreSetImage(remoteLooks, r.id, r.img)
             /\ Commit(new.heap, new.list, lpend (-) SetToBag({r}))
             /\ last' = Step("updateImageUrl:ok", r.id, 0, FALSE)
     ELSE /\ Commit(heap, looks, lpend (-) SetToBag({r}))
          /\ last' = Step("updateImageUrl:error", r.id, 0, TRUE)
          /\ UNCHANGED remoteLooks
  /\ UNCHANGED <<newLookName, loading, uploading, nextLookId, ops,
                 looksProduction, productionAsked>>

\* uploadImage, up to the await of the update
UploadImage(lookId) ==
  /\ Mounted("looks") /\ ~loading /\ CanIssue
  /\ lookId \in LocalIds
  /\ lpend' = lpend (+) SetToBag({Req("upload", lookId, 0, BlobSent, "", looks)})
  /\ uploading' = {lookId}
  /\ last' = Step("uploadImage", lookId, 1, FALSE)
  /\ ops' = ops + 1
  /\ UNCHANGED <<looks, heap, newLookName, loading, remoteLooks, nextLookId,
                 looksProduction, productionAsked>>

\* uploadImage that returns from its error branch
UploadImageDoneReturningEarly(r, ok) ==
  /\ Mounted("looks") /\ r \in Pending(lpend) /\ r.kind = "upload"
  /\ IF ok
     THEN LET new == WithImage(r.snap, heap, r.id, BlobKept)
          IN /\ remoteLooks' = StoreSetImage(remoteLooks, r.id, r.img)
             /\ Commit(new.heap, new.list, lpend (-) SetToBag({r}))
             /\ last' = Step("uploadImage:ok", r.id, 0, FALSE)
             /\ uploading' = {}
     ELSE /\ Commit(heap, looks, lpend (-) SetToBag({r}))
          /\ last' = Step("uploadImage:error", r.id, 0, TRUE)
          /\ UNCHANGED <<remoteLooks, uploading>>
  /\ UNCHANGED <<newLookName, loading, nextLookId, ops, looksProduction, productionAsked>>

\* uploadImage, from the update's answer on
UploadImageDone(r, ok) ==
  /\ Mounted("looks") /\ r \in Pending(lpend) /\ r.kind = "upload"
  /\ IF ok
     THEN LET new == WithImage(r.snap, heap, r.id, BlobKept)
          IN /\ remoteLooks' = StoreSetImage(remoteLooks, r.id, r.img)
             /\ Commit(new.heap, new.list, lpend (-) SetToBag({r}))
             /\ last' = Step("uploadImage:ok", r.id, 0, FALSE)
     ELSE /\ Commit(heap, looks, lpend (-) SetToBag({r}))
          /\ last' = Step("uploadImage:error", r.id, 0, TRUE)
          /\ UNCHANGED remoteLooks
  /\ uploading' = {}
  /\ UNCHANGED <<newLookName, loading, nextLookId, ops,
                 looksProduction, productionAsked>>

\* The array after exchanging the entries at 0-based positions i and j.
Swap(lk, i, j) ==
  [k \in 1..Len(lk) |-> IF k = i + 1 THEN lk[j + 1] ELSE IF k = j + 1 THEN lk[i + 1] ELSE lk[k]]

\* Variants of Renumber: one that leaves the indices as they were, one that
\* renumbers the whole list.
RenumberNone(h, lk, a, b) == h

RenumberAll(h, lk, a, b) ==
  [ref \in Refs |->
     IF \E k \in 1..Len(lk) : lk[k] = ref
     THEN [h[ref] EXCEPT !.seq = (CHOOSE k \in 1..Len(lk) : lk[k] = ref) - 1]
     ELSE h[ref]]

\* newLooks[a].sequence_order = a; newLooks[b].sequence_order = b: the objects
\* are the ones every array holding them shares.
Renumber(h, lk, a, b) ==
  [h EXCEPT ![lk[a + 1]].seq = a, ![lk[b + 1]].seq = b]

\* The two independent updates of a move.
SeqWrites(h, lk, a, b) ==
  SetToBag({Req("seq", h[lk[a + 1]].id, a, Null, "", <<>>)})
    (+) SetToBag({Req("seq", h[lk[b + 1]].id, b, Null, "", <<>>)})

\* A variant of moveUp that persists the index of the entry it was called on
\* before looking at the position.
MoveUpPersistsFirst(index) ==
  /\ Mounted("looks") /\ ~loading /\ CanIssue
  /\ index \in 0..(Len(looks) - 1)
  /\ lpend' = lpend (+) SetToBag({Req("seq", heap[looks[index + 1]].id, index, Null, "", <<>>)})
  /\ last' = Step("moveUp", index, 1, FALSE)
  /\ ops' = ops + 1
  /\ UNCHANGED <<looks, heap, newLookName, loading, uploading, remoteLooks, nextLookId,
                 looksProduction, productionAsked>>

\* moveUp: all of it runs before the await
MoveUp(index) ==
  /\ Mounted("looks") /\ ~loading /\ CanIssue
  /\ index \in 0..(Len(looks) - 1)
  /\ IF index = 0
     THEN /\ last' = Step("moveUp", index, 0, FALSE)
          /\ UNCHANGED <<ops, looksVars>>
     ELSE LET newLooks == Swap(looks, index, index - 1)
          IN /\ looks' = newLooks
             /\ heap' = Renumber(heap, newLooks, index, index - 1)
             /\ lpend' = lpend (+) SeqWrites(heap, newLooks, index, index - 1)
             /\ last' = Step("moveUp", index, 2, FALSE)
             /\ ops' = ops + 1
             /\ UNCHANGED <<newLookName, loading, uploading, remoteLooks, nextLookId,
                            looksProduction, productionAsked>>

\* moveDown: all of it runs before the await
MoveDown(index) ==
  /\ Mounted("looks") /\ ~loading /\ CanIssue
  /\ index \in 0..(Len(looks) - 1)
  /\ IF index = Len(looks) - 1
     THEN /\ last' = Step("moveDown", index, 0, FALSE)
          /\ UNCHANGED <<ops, looksVars>>
     ELSE LET newLooks == Swap(looks, index, index + 1)
          IN /\ looks' = newLooks
             /\ heap' = Renumber(heap, newLooks, index, index + 1)
             /\ lpend' = lpend (+) SeqWrites(heap, newLooks, index, index + 1)
             /\ last' = Step("moveDown", index, 2, FALSE)
             /\ ops' = ops + 1
             /\ UNCHANGED <<newLookName, loading, uploading, remoteLooks, nextLookId,
                            looksProduction, productionAsked>>

\* A variant in which a failed update puts the look's local index back to the
\* store's
SeqWriteDoneRollingBack(r, ok) ==
  /\ Mounted("looks") /\ r \in Pending(lpend) /\ r.kind = "seq"
  /\ lpend' = lpend (-) SetToBag({r})
  /\ remoteLooks' = IF ok THEN StoreSetSeq(remoteLooks, r.id, r.seq) ELSE remoteLooks
  /\ heap' = IF ok THEN heap
             ELSE [x \in Refs |->
                     IF heap[x] # NoObj /\ heap[x].id = r.id
                          /\ \E y \in remoteLooks : y.id = r.id
                     THEN [heap[x] EXCEPT !.seq = (CHOOSE y \in remoteLooks : y.id = r.id).seq]
                     ELSE heap[x]]
  /\ last' = Step(IF ok THEN "seq:ok" ELSE "seq:error", r.id, 0, FALSE)
  /\ UNCHANGED <<looks, newLookName, loading, uploading, nextLookId, ops,
                 looksProduction, productionAsked>>

\* One update of a move answered by the store; nothing runs after Promise.all.
SeqWriteDone(r, ok) ==
  /\ Mounted("looks") /\ r \in Pending(lpend) /\ r.kind = "seq"
  /\ lpend' = lpend (-) SetToBag({r})
  /\ remoteLooks' = IF ok THEN StoreSetSeq(remoteLooks, r.id, r.seq) ELSE remoteLooks
  /\ last' = Step(IF ok THEN "seq:ok" ELSE "seq:error", r.id, 0, FALSE)
  /\ UNCHANGED <<looks, heap, newLookName, loading, uploading, nextLookId, ops,
                 looksProduction, productionAsked>>

\* deleteLook, up to the await of the delete
DeleteLook(lookId, confirmed) ==
  /\ Mounted("looks") /\ ~loading /\ CanIssue
  /\ lookId \in LocalIds
  /\ IF ~confirmed
     THEN /\ last' = Step("deleteLook", lookId, 0, FALSE)
          /\ UNCHANGED <<ops, looksVars>>
     ELSE /\ lpend' = lpend (+) SetToBag({Req("delete", lookId, 0, Null, "", looks)})
          /\ last' = Step("deleteLook", lookId, 1, FALSE)
          /\ ops' = ops + 1
          /\ UNCHANGED <<looks, heap, newLookName, loading, uploading, remoteLooks, nextLookId,
                         looksProduction, productionAsked>>

\* deleteLook, from the delete's answer on
DeleteLookDone(r, ok) ==
  /\ Mounted("looks") /\ r \in Pending(lpend) /\ r.kind = "delete"
  /\ IF ok
     THEN /\ remoteLooks' = StoreDelete(remoteLooks, r.id)
          /\ Commit(heap, WithoutId(r.snap, heap, r.id), lpend (-) SetToBag({r}))
          /\ last' = Step("deleteLook:ok", r.id, 0, FALSE)
     ELSE /\ Commit(heap, looks, lpend (-) SetToBag({r}))
          /\ last' = Step("deleteLook:error", r.id, 0, FALSE)
          /\ UNCHANGED remoteLooks
  /\ UNCHANGED <<newLookName, loading, uploading, nextLookId, ops,
                 looksProduction, productionAsked>>

LooksNext ==
  \/ \E ok \in BOOLEAN : LoadProduction(ok)
  \/ \E ok \in BOOLEAN : LoadLooks(ok)
  \/ \E n \in Names : SetNewLookName(n)
  \/ CreateLook
  \/ \E r \in Pending(lpend), ok \in BOOLEAN : CreateLookDone(r, ok)
  \/ \E id \in LookIds, url \in Urls : UpdateImageUrl(id, url)
  \/ \E r \in Pending(lpend), ok \in BOOLEAN : UpdateImageUrlDone(r, ok)
  \/ \E id \in LookIds : UploadImage(id)
  \/ \E r \in Pending(lpend), ok \in BOOLEAN : UploadImageDone(r, ok)
  \/ \E i \in 0..MaxOps : MoveUp(i)
  \/ \E i \in 0..MaxOps : MoveDown(i)
  \/ \E r \in Pending(lpend), ok \in BOOLEAN : SeqWriteDone(r, ok)
  \/ \E id \in LookIds, c \in BOOLEAN : DeleteLook(id, c)
  \/ \E r \in Pending(lpend), ok \in BOOLEAN : DeleteLookDone(r, ok)

\* ---------------------------------------------------------- schedule view
ItemRow(id, pid, title, description, start_time, end_time, category, location, notes, order) ==
  [id |-> id, pid |-> pid, title |-> title, description |-> description,
   start_time |-> start_time, end_time |-> end_time, category |-> category,
   location |-> location, notes |-> notes, sequence_order |-> order]

Form(title, description, start_time, end_time, category, location, notes) ==
  [title |-> title, description |-> description, start_time |-> start_time,
   end_time |-> end_time, category |-> category, location |-> location, notes |-> notes]

\* The add form as useState creates it and as addScheduleItem resets it.
BlankForm == Form("", "", "", "", "general", "", "")

\* What the user may have typed when addScheduleItem is called: a blank title, no
\* start time, and two complete entries, the later one typed first.
Forms ==
  {Form(" ", "", "09:00", "", "general", "", ""),
   Form("Shoot", "", "", "", "shoot", "", ""),
   Form("Shoot", "", "10:00", "11:30", "shoot", "Studio", ""),
   Form(" Call ", " d ", "09:00", "", "setup", " ", "")}

\* The public catalog: blueprints are loosely typed, a field may be missing.
Blueprint(title, description, start_time, end_time, category, location, notes) ==
  Form(title, description, start_time, end_time, category, location, notes)

TemplateCatalog ==
  <<[id |-> 1, is_public |-> TRUE,
     template_data |->
       <<Blueprint("Setup", Undefined, "09:00", Undefined, Undefined, Undefined, Undefined),
         Blueprint("Shoot", "d", "10:00", "11:30", "shoot", "Studio", "n")>>],
    [id |-> 2, is_public |-> FALSE,
     template_data |->
       <<Blueprint("Private", Undefined, "09:00", Undefined, Undefined, Undefined, Undefined)>>],
    [id |-> 3, is_public |-> TRUE,
     template_data |->
       <<Blueprint("Wrap", "", "11:30", Null, "", "", Undefined)>>]>>

\* Rows the store may hold when the view mounts: another production's item, and
\* either nothing or two items of this production whose sequence order is not
\* their start-time order.
ForeignItem == ItemRow(0, OtherProd, "Other", "", "09:00", Null, "general", Null, Null, 0)
InitialItems ==
  {{ForeignItem},
   {ForeignItem,
    ItemRow(1, ThisProd, "Shoot", "", "10:00", Null, "shoot", Null, Null, 0),
    ItemRow(2, ThisProd, "Call", "", "09:00", Null, "setup", Null, Null, 1)}}

SchedInit ==
  /\ schedProduction = {}
  /\ scheduleItems = <<>>
  /\ templates = <<>>
  /\ schedLoading = TRUE
  /\ showAddForm = FALSE
  /\ newItem = BlankForm
  /\ remoteItems \in IF view = "schedule" THEN InitialItems ELSE {{ForeignItem}}
  /\ nextItemId = Max({r.id : r \in remoteItems}) + 1
  /\ spend = EmptyBag

\* A schedule-view request in flight, with what its handler closed over.
SReq(kind, id, rows, snap, ctx) ==
  [kind |-> kind, id |-> id, rows |-> rows, snap |-> snap, ctx |-> ctx]

ItemIds == {scheduleItems[k].id : k \in 1..Len(scheduleItems)}

\* select('*').eq('production_id', params.id).order('start_time')
SelectItems(rows) ==
  LET mine == {r \in rows : r.pid = ThisProd}
  IN OrderedBy(mine, [r \in mine |-> TimeRank(r.start_time)])

\* select('*').eq('is_public', true), in the store's order
RECURSIVE SelectTemplates(_)
SelectTemplates(cat) ==
  IF cat = <<>> THEN <<>>
  ELSE (IF Head(cat).is_public THEN <<Head(cat)>> ELSE <<>>) \o SelectTemplates(Tail(cat))

\* loadData: the three queries run one after the other with nothing else able to
\* run in between (the view renders its skeleton until loading is false).
LoadData(okProd, okSched, okTempl) ==
  /\ Mounted("schedule") /\ schedLoading
  /\ schedProduction' = IF okProd THEN {[id |-> ThisProd, name |-> "A"]} ELSE schedProduction
  /\ IF okSched
     THEN scheduleItems' \in SelectItems(remoteItems)
     ELSE UNCHANGED scheduleItems
  /\ templates' = IF okTempl THEN SelectTemplates(TemplateCatalog) ELSE templates
  /\ schedLoading' = FALSE
  /\ last' = StepCtx("loadData", 0, 0, FALSE, Outcome(okProd, okSched, okTempl))
  /\ UNCHANGED <<ops, showAddForm, newItem, remoteItems, nextItemId, spend>>

\* setShowAddForm(true) / setShowAddForm(false)
SetShowAddForm(b) ==
  /\ Mounted("schedule") /\ ~schedLoading /\ CanIssue
  /\ b # showAddForm
  /\ showAddForm' = b
  /\ last' = Step("setShowAddForm", 0, 0, FALSE)
  /\ UNCHANGED <<ops, schedProduction, scheduleItems, templates, schedLoading, newItem,
                 remoteItems, nextItemId, spend>>

\* The onChange handlers of the add form, field after field, up to the form f.
SetNewItem(f) ==
  /\ Mounted("schedule") /\ ~schedLoading /\ CanIssue
  /\ showAddForm
  /\ f # newItem
  /\ newItem' = f
  /\ last' = Step("setNewItem", 0, 0, FALSE)
  /\ UNCHANGED <<ops, schedProduction, scheduleItems, templates, schedLoading, showAddForm,
                 remoteItems, nextItemId, spend>>

\* sequence_order: scheduleItems.length
ItemOrder(items) == Len(items)

\* The row addScheduleItem sends.
NewItemRow(f, items) ==
  ItemRow(0, ThisProd, Trim(f.title), Trim(f.description), f.start_time,
          OrElse(f.end_time, Null), f.category, OrElse(Trim(f.location), Null),
          OrElse(Trim(f.notes), Null), ItemOrder(items))

\* insert(rows).select(): the store gives each row an identity, in order.
Inserted(rows, first) == [k \in 1..Len(rows) |-> [rows[k] EXCEPT !.id = first + k - 1]]

\* addScheduleItem, up to the await of the insert
AddScheduleItem ==
  /\ Mounted("schedule") /\ ~schedLoading /\ CanIssue
  /\ showAddForm
  /\ IF Trim(newItem.title) = "" \/ Falsy(newItem.start_time)
     THEN /\ last' = Step("addScheduleItem", 0, 0, FALSE)
          /\ UNCHANGED <<ops, schedVars>>
     ELSE /\ spend' = spend (+) SetToBag({SReq("add", 0, <<NewItemRow(newItem, scheduleItems)>>,
                                               scheduleItems, "")})
          /\ last' = Step("addScheduleItem", 0, 1, FALSE)
          /\ ops' = ops + 1
          /\ UNCHANGED <<schedProduction, scheduleItems, templates, schedLoading, showAddForm,
                         newItem, remoteItems, nextItemId>>

\* addScheduleItem, from the insert's answer on
AddScheduleItemDone(r, ok) ==
  /\ Mounted("schedule") /\ r \in Pending(spend) /\ r.kind = "add"
  /\ spend' = spend (-) SetToBag({r})
  /\ IF ok
     THEN LET data == Inserted(r.rows, nextItemId)
          IN /\ remoteItems' = remoteItems \cup Range(data)
             /\ nextItemId' = nextItemId + Len(data)
             /\ scheduleItems' = r.snap \o data
             /\ newItem' = BlankForm
             /\ showAddForm' = FALSE
             /\ last' = Step("addScheduleItem:ok", data[1].id, 0, FALSE)
     ELSE /\ last' = Step("addScheduleItem:error", 0, 0, FALSE)
          /\ UNCHANGED <<scheduleItems, newItem, showAddForm, remoteItems, nextItemId>>
  /\ UNCHANGED <<ops, schedProduction, templates, schedLoading>>

\* scheduleItems.filter(item => item.id !== itemId)
RECURSIVE WithoutItem(_, _)
WithoutItem(items, id) ==
  IF items = <<>> THEN <<>>
  ELSE (IF Head(items).id # id THEN <<Head(items)>> ELSE <<>>) \o WithoutItem(Tail(items), id)

\* deleteScheduleItem, up to the await of the delete
DeleteScheduleItem(itemId) ==
  /\ Mounted("schedule") /\ ~schedLoading /\ CanIssue
  /\ itemId \in ItemIds
  /\ spend' = spend (+) SetToBag({SReq("delete", itemId, <<>>, scheduleItems, "")})
  /\ last' = Step("deleteScheduleItem", itemId, 1, FALSE)
  /\ ops' = ops + 1
  /\ UNCHANGED <<schedProduction, scheduleItems, templates, schedLoading, showAddForm,
                 newItem, remoteItems, nextItemId>>

\* deleteScheduleItem, from the delete's answer on
DeleteScheduleItemDone(r, ok) ==
  /\ Mounted("schedule") /\ r \in Pending(spend) /\ r.kind = "delete"
  /\ spend' = spend (-) SetToBag({r})
  /\ IF ok
     THEN /\ remoteItems' = {x \in remoteItems : x.id # r.id}
          /\ scheduleItems' = WithoutItem(r.snap, r.id)
          /\ last' = Step("deleteScheduleItem:ok", r.id, 0, FALSE)
     ELSE /\ last' = Step("deleteScheduleItem:error", r.id, 0, FALSE)
          /\ UNCHANGED <<scheduleItems, remoteItems>>
  /\ UNCHANGED <<ops, schedProduction, templates, schedLoading, showAddForm, newItem,
                 nextItemId>>

\* A mapping that passes every blueprint field through as it is
MapBlueprintAsIs(item, index) ==
  ItemRow(0, ThisProd, item.title, item.description, item.start_time, item.end_time,
          item.category, item.location, item.notes, index)

\* templateData.map((item, index) => ({ ... }))
MapBlueprint(item, index) ==
  ItemRow(0, ThisProd, item.title, OrElse(item.description, ""), item.start_time,
          OrElse(item.end_time, Null), OrElse(item.category, "general"),
          OrElse(item.location, Null), OrElse(item.notes, Null), index)

ItemsToInsert(templateData) ==
  [k \in 1..Len(templateData) |-> MapBlueprint(templateData[k], k - 1)]

\* applyTemplate, up to its first await: of the bulk delete when there are items
\* and the user confirms, of the insert when there are none
ApplyTemplate(t, confirmed) ==
  /\ Mounted("schedule") /\ ~schedLoading /\ CanIssue
  /\ t \in 1..Len(templates)
  /\ IF Len(scheduleItems) > 0 /\ ~confirmed
     THEN /\ last' = Step("applyTemplate", templates[t].id, 0, FALSE)
          /\ UNCHANGED <<ops, schedVars>>
     ELSE /\ spend' = spend (+) SetToBag({
               IF Len(scheduleItems) > 0
               THEN SReq("bulkDelete", templates[t].id, ItemsToInsert(templates[t].template_data),
                         scheduleItems, "")
               ELSE SReq("insert", templates[t].id, ItemsToInsert(templates[t].template_data),
                         scheduleItems, "empty")})
          /\ last' = StepCtx("applyTemplate", templates[t].id, 1, FALSE,
                             IF Len(scheduleItems) > 0 THEN "confirmed" ELSE "empty")
          /\ ops' = ops + 1
          /\ UNCHANGED <<schedProduction, scheduleItems, templates, schedLoading, showAddForm,
                         newItem, remoteItems, nextItemId>>

\* applyTemplate, from the bulk delete's answer to the await of the insert: the
\* answer is not looked at
ApplyTemplateDeleteDone(r, ok) ==
  /\ Mounted("schedule") /\ r \in Pending(spend) /\ r.kind = "bulkDelete"
  /\ remoteItems' = IF ok THEN {x \in remoteItems : x.pid # ThisProd} ELSE remoteItems
  /\ spend' = (spend (-) SetToBag({r}))
                (+) SetToBag({SReq("insert", r.id, r.rows, r.snap,
                                   IF ok THEN "deleted" ELSE "deleteFailed")})
  /\ last' = Step(IF ok THEN "applyTemplate:delete:ok" ELSE "applyTemplate:delete:error",
                  r.id, 1, FALSE)
  /\ UNCHANGED <<ops, schedProduction, scheduleItems, templates, schedLoading, showAddForm,
                 newItem, nextItemId>>

\* applyTemplate whose success branch adds the inserted items to the list it had
ApplyTemplateInsertDoneAppending(r, ok) ==
  /\ Mounted("schedule") /\ r \in Pending(spend) /\ r.kind = "insert"
  /\ spend' = spend (-) SetToBag({r})
  /\ IF ok
     THEN LET data == Inserted(r.rows, nextItemId)
          IN /\ remoteItems' = remoteItems \cup Range(data)
             /\ nextItemId' = nextItemId + Len(data)
             /\ scheduleItems' = r.snap \o data
             /\ last' = StepCtx("applyTemplate:ok", r.id, 0, FALSE, r.ctx)
     ELSE /\ last' = StepCtx("applyTemplate:error", r.id, 0, FALSE, r.ctx)
          /\ UNCHANGED <<scheduleItems, remoteItems, nextItemId>>
  /\ UNCHANGED <<ops, schedProduction, templates, schedLoading, showAddForm, newItem>>

\* applyTemplate whose error branch empties the list
ApplyTemplateInsertDoneClearing(r, ok) ==
  /\ Mounted("schedule") /\ r \in Pending(spend) /\ r.kind = "insert"
  /\ spend' = spend (-) SetToBag({r})
  /\ IF ok
     THEN LET data == Inserted(r.rows, nextItemId)
          IN /\ remoteItems' = remoteItems \cup Range(data)
             /\ nextItemId' = nextItemId + Len(data)
             /\ scheduleItems' = data
             /\ last' = StepCtx("applyTemplate:ok", r.id, 0, FALSE, r.ctx)
     ELSE /\ last' = StepCtx("applyTemplate:error", r.id, 0, FALSE, r.ctx)
          /\ scheduleItems' = <<>>
          /\ UNCHANGED <<remoteItems, nextItemId>>
  /\ UNCHANGED <<ops, schedProduction, templates, schedLoading, showAddForm, newItem>>

\* applyTemplate, from the insert's answer on
ApplyTemplateInsertDone(r, ok) ==
  /\ Mounted("schedule") /\ r \in Pending(spend) /\ r.kind = "insert"
  /\ spend' = spend (-) SetToBag({r})
  /\ IF ok
     THEN LET data == Inserted(r.rows, nextItemId)
          IN /\ remoteItems' = remoteItems \cup Range(data)
             /\ nextItemId' = nextItemId + Len(data)
             /\ scheduleItems' = data
             /\ last' = StepCtx("applyTemplate:ok", r.id, 0, FALSE, r.ctx)
     ELSE /\ last' = StepCtx("applyTemplate:error", r.id, 0, FALSE, r.ctx)
          /\ UNCHANGED <<scheduleItems, remoteItems, nextItemId>>
  /\ UNCHANGED <<ops, schedProduction, templates, schedLoading, showAddForm, newItem>>

SchedNext ==
  \/ \E okProd, okSched, okTempl \in BOOLEAN : LoadData(okProd, okSched, okTempl)
  \/ \E b \in BOOLEAN : SetShowAddForm(b)
  \/ \E f \in Forms : SetNewItem(f)
  \/ AddScheduleItem
  \/ \E r \in Pending(spend), ok \in BOOLEAN : AddScheduleItemDone(r, ok)
  \/ \E id \in 1..(nextItemId - 1) : DeleteScheduleItem(id)
  \/ \E r \in Pending(spend), ok \in BOOLEAN : DeleteScheduleItemDone(r, ok)
  \/ \E t \in 1..Len(TemplateCatalog), c \in BOOLEAN : ApplyTemplate(t, c)
  \/ \E r \in Pending(spend), ok \in BOOLEAN : ApplyTemplateDeleteDone(r, ok)
  \/ \E r \in Pending(spend), ok \in BOOLEAN : ApplyTemplateInsertDone(r, ok)

\* -------------------------------------------------------- call-sheet view
ProductionFields ==
  {"shoot_date", "call_time", "location_address", "location_details", "client_name",
   "producer_name", "producer_phone", "weather_backup", "parking_info", "special_notes"}

\* The fields the model's user edits, and what an input's onChange may carry.
EditedFields == {"client_name", "call_time"}
FieldValues == {"", "X"}

\* A productions row: a name and nullable text fields.
ProductionRow(name, v) ==
  [f \in ProductionFields \cup {"id", "name"} |->
     IF f = "id" THEN ThisProd ELSE IF f = "name" THEN name ELSE v]

InitialProductions == {ProductionRow("A", Null), ProductionRow("A", "X")}

CrewRow(id, pid, name, role, call_time, phone, email, notes) ==
  [id |-> id, pid |-> pid, name |-> name, role |-> role, call_time |-> call_time,
   phone |-> phone, email |-> email, notes |-> notes]

CrewForm(name, role, call_time, phone, email) ==
  [name |-> name, role |-> role, call_time |-> call_time, phone |-> phone, email |-> email]

\* The form as useState creates it and as addCrewMember resets it.
BlankCrewForm == CrewForm("", "", "", "", "")

\* What the user may have typed when addCrewMember is called.
CrewForms ==
  {CrewForm(" ", "Stylist", "", "", ""),
   CrewForm("Ann", " ", "", "", ""),
   CrewForm(" Ann ", "Stylist", "09:00", "555", "")}

\* Roles in ascending order.
Roles == <<"Assistant", "Stylist">>
RoleRank(r) == CHOOSE k \in 1..Len(Roles) : Roles[k] = r

ForeignCrew == CrewRow(0, OtherProd, "Zed", "Stylist", Null, Null, Null, Null)
InitialCrew ==
  {{ForeignCrew},
   {ForeignCrew,
    CrewRow(1, ThisProd, "Bo", "Stylist", Null, Null, Null, Null),
    CrewRow(2, ThisProd, "Cy", "Assistant", "09:00", "555", Null, Null)}}

\* What pdf.save writes: a file name and the pages drawn.
Document(name, pages) == [name |-> name, pages |-> pages]
NoDocument == Document("", <<>>)

\* The call sheet mounts over a production that has neither crew nor looks, or
\* has both.
SheetInit ==
  /\ sheetProduction = {}
  /\ crew = <<>>
  /\ sheetLooks = <<>>
  /\ sheetLoading = TRUE
  /\ generating = FALSE
  /\ saved = NoDocument
  /\ newCrew = BlankCrewForm
  /\ remoteProduction \in IF view = "callsheet" THEN InitialProductions
                          ELSE {ProductionRow("A", Null)}
  /\ remoteCrew \in IF view = "callsheet" THEN InitialCrew ELSE {{ForeignCrew}}
  /\ view = "callsheet" =>
       /\ (remoteCrew = {ForeignCrew}) <=> (remoteLooks = {ForeignLook})
       /\ \A x \in remoteLooks : x.pid = ThisProd => x.seq = x.id - 1
  /\ nextCrewId = Max({r.id : r \in remoteCrew}) + 1
  /\ cpend = EmptyBag

\* A call-sheet-view request in flight, with what its handler closed over.
CReq(kind, id, field, value, row, snap) ==
  [kind |-> kind, id |-> id, field |-> field, value |-> value, row |-> row, snap |-> snap]

NoCrew == CrewRow(0, ThisProd, "", "", "", "", "", Null)

CrewIds == {crew[k].id : k \in 1..Len(crew)}

\* select('*').eq('production_id', params.id).order('role')
SelectCrew(rows) ==
  LET mine == {r \in rows : r.pid = ThisProd}
  IN OrderedBy(mine, [r \in mine |-> RoleRank(r.role)])

\* select('id, name, sequence_order')
SheetLook(row) == [id |-> row.id, name |-> row.name, sequence_order |-> row.seq]
SheetLookList(rows) == [k \in 1..Len(rows) |-> SheetLook(rows[k])]

\* The call sheet's loadData: three queries one after the other, the view showing
\* its skeleton until the last has answered.
SheetLoadData(okProd, okCrew, okLooks) ==
  /\ Mounted("callsheet") /\ sheetLoading
  /\ sheetProduction' = IF okProd THEN {remoteProduction} ELSE sheetProduction
  /\ IF okCrew THEN crew' \in SelectCrew(remoteCrew) ELSE UNCHANGED crew
  /\ IF okLooks
     THEN sheetLooks' \in {SheetLookList(rows) : rows \in SelectLooks(remoteLooks)}
     ELSE UNCHANGED sheetLooks
  /\ sheetLoading' = FALSE
  /\ last' = StepCtx("sheetLoadData", 0, 0, FALSE, Outcome(okProd, okCrew, okLooks))
  /\ UNCHANGED <<ops, newCrew, generating, saved, remoteProduction, remoteCrew, nextCrewId,
                 cpend>>

\* The page past its two early returns: loaded, and a production to show.
SheetShown == ~sheetLoading /\ sheetProduction # {}

\* updateProduction, up to the await of the update
UpdateProduction(field, value) ==
  /\ Mounted("callsheet") /\ SheetShown /\ CanIssue
  /\ cpend' = cpend (+) SetToBag({CReq("update", 0, field, value, NoCrew, <<>>)})
  /\ last' = StepCtx("updateProduction", 0, 1, FALSE, field)
  /\ ops' = ops + 1
  /\ UNCHANGED <<sheetProduction, crew, sheetLooks, sheetLoading,
                 generating, saved, newCrew, remoteProduction,
                 remoteCrew, nextCrewId>>

\* updateProduction, from the update's answer on
UpdateProductionDone(r, ok) ==
  /\ Mounted("callsheet") /\ r \in Pending(cpend) /\ r.kind = "update"
  /\ cpend' = cpend (-) SetToBag({r})
  /\ IF ok
     THEN /\ remoteProduction' = [remoteProduction EXCEPT ![r.field] = r.value]
          /\ sheetProduction' = {[prev EXCEPT ![r.field] = r.value] : prev \in sheetProduction}
          /\ last' = StepCtx("updateProduction:ok", 0, 0, FALSE, r.field)
     ELSE /\ last' = StepCtx("updateProduction:error", 0, 0, FALSE, r.field)
          /\ UNCHANGED <<remoteProduction, sheetProduction>>
  /\ UNCHANGED <<ops, crew, sheetLooks, sheetLoading,
                 generating, saved, newCrew, remoteCrew, nextCrewId>>

\* The onChange handlers of the crew form, field after field, up to the form f.
SetNewCrew(f) ==
  /\ Mounted("callsheet") /\ SheetShown /\ CanIssue
  /\ f # newCrew
  /\ newCrew' = f
  /\ last' = Step("setNewCrew", 0, 0, FALSE)
  /\ UNCHANGED <<ops, sheetProduction, crew, sheetLooks, sheetLoading,
                 generating, saved, remoteProduction,
                 remoteCrew, nextCrewId, cpend>>

\* { production_id: params.id, ...newCrew }
NewCrewRow(f) == CrewRow(0, ThisProd, f.name, f.role, f.call_time, f.phone, f.email, Null)

\* addCrewMember, up to the await of the insert
AddCrewMember ==
  /\ Mounted("callsheet") /\ SheetShown /\ CanIssue
  /\ IF Trim(newCrew.name) = "" \/ Trim(newCrew.role) = ""
     THEN /\ last' = Step("addCrewMember", 0, 0, FALSE)
          /\ UNCHANGED <<ops, sheetVars>>
     ELSE /\ cpend' = cpend (+) SetToBag({CReq("insert", 0, "", "", NewCrewRow(newCrew), crew)})
          /\ last' = Step("addCrewMember", 0, 1, FALSE)
          /\ ops' = ops + 1
          /\ UNCHANGED <<sheetProduction, crew, sheetLooks, sheetLoading,
                         generating, saved, newCrew,
                         remoteProduction, remoteCrew, nextCrewId>>

\* addCrewMember, from the insert's answer on
AddCrewMemberDone(r, ok) ==
  /\ Mounted("callsheet") /\ r \in Pending(cpend) /\ r.kind = "insert"
  /\ cpend' = cpend (-) SetToBag({r})
  /\ IF ok
     THEN LET data == [r.row EXCEPT !.id = nextCrewId]
          IN /\ remoteCrew' = remoteCrew \cup {data}
             /\ nextCrewId' = nextCrewId + 1
             /\ crew' = r.snap \o <<data>>
             /\ newCrew' = BlankCrewForm
             /\ last' = Step("addCrewMember:ok", data.id, 0, FALSE)
     ELSE /\ last' = Step("addCrewMember:error", 0, 0, FALSE)
          /\ UNCHANGED <<crew, newCrew, remoteCrew, nextCrewId>>
  /\ UNCHANGED <<ops, sheetProduction, sheetLooks, sheetLoading,
                 generating, saved, remoteProduction>>

\* crew.filter(c => c.id !== crewId)
RECURSIVE WithoutCrew(_, _)
WithoutCrew(list, id) ==
  IF list = <<>> THEN <<>>
  ELSE (IF Head(list).id # id THEN <<Head(list)>> ELSE <<>>) \o WithoutCrew(Tail(list), id)

\* removeCrewMember, up to the await of the delete
RemoveCrewMember(crewId) ==
  /\ Mounted("callsheet") /\ SheetShown /\ CanIssue
  /\ crewId \in CrewIds
  /\ cpend' = cpend (+) SetToBag({CReq("delete", crewId, "", "", NoCrew, crew)})
  /\ last' = Step("removeCrewMember", crewId, 1, FALSE)
  /\ ops' = ops + 1
  /\ UNCHANGED <<sheetProduction, crew, sheetLooks, sheetLoading,
                 generating, saved, newCrew, remoteProduction,
                 remoteCrew, nextCrewId>>

\* removeCrewMember with an error branch that removes the member all the same
RemoveCrewMemberDoneRegardless(r, ok) ==
  /\ Mounted("callsheet") /\ r \in Pending(cpend) /\ r.kind = "delete"
  /\ cpend' = cpend (-) SetToBag({r})
  /\ crew' = WithoutCrew(r.snap, r.id)
  /\ IF ok
     THEN /\ remoteCrew' = {x \in remoteCrew : x.id # r.id}
          /\ last' = Step("removeCrewMember:ok", r.id, 0, FALSE)
     ELSE /\ last' = Step("removeCrewMember:error", r.id, 0, FALSE)
          /\ UNCHANGED remoteCrew
  /\ UNCHANGED <<ops, sheetProduction, sheetLooks, sheetLoading,
                 generating, saved, newCrew, remoteProduction,
                 nextCrewId>>

\* removeCrewMember, from the delete's answer on
RemoveCrewMemberDone(r, ok) ==
  /\ Mounted("callsheet") /\ r \in Pending(cpend) /\ r.kind = "delete"
  /\ cpend' = cpend (-) SetToBag({r})
  /\ IF ok
     THEN /\ remoteCrew' = {x \in remoteCrew : x.id # r.id}
          /\ crew' = WithoutCrew(r.snap, r.id)
          /\ last' = Step("removeCrewMember:ok", r.id, 0, FALSE)
     ELSE /\ last' = Step("removeCrewMember:error", r.id, 0, FALSE)
          /\ UNCHANGED <<crew, remoteCrew>>
  /\ UNCHANGED <<ops, sheetProduction, sheetLooks, sheetLoading,
                 generating, saved, newCrew, remoteProduction,
                 nextCrewId>>

SheetNext ==
  \/ \E okProd, okCrew, okLooks \in BOOLEAN : SheetLoadData(okProd, okCrew, okLooks)
  \/ \E f \in EditedFields, v \in FieldValues : UpdateProduction(f, v)
  \/ \E r \in Pending(cpend), ok \in BOOLEAN : UpdateProductionDone(r, ok)
  \/ \E f \in CrewForms : SetNewCrew(f)
  \/ AddCrewMember
  \/ \E r \in Pending(cpend), ok \in BOOLEAN : AddCrewMemberDone(r, ok)
  \/ \E id \in 1..(nextCrewId - 1) : RemoveCrewMember(id)
  \/ \E r \in Pending(cpend), ok \in BOOLEAN : RemoveCrewMemberDone(r, ok)

\* ----------------------------------------------------- display derivations
MaxCanvasHeight == 1200

\* A two-digit field of a stored time.
Pad2(n) == IF n < 10 THEN "0" \o ToString(n) ELSE ToString(n)

\* A time of day as the store returns it and the time inputs produce it: "HH:MM".
TimeOfDay(t) == Pad2(t[1]) \o ":" \o Pad2(t[2])

ClockTimes == (0..23) \X (0..59)

\* new Date(`2000-01-01T${time}`): the hour and minute the string denotes.
ParseTime(time) == CHOOSE t \in ClockTimes : TimeOfDay(t) = time

\* Date.prototype.getTime, in milliseconds from the start of 2000-01-01.
GetTime(time) == (ParseTime(time)[1] * 60 + ParseTime(time)[2]) * 60000

\* toLocaleTimeString('en-US', { hour: 'numeric', minute: '2-digit', hour12: true })
\* with hour 0 shown as well as hour 12 is
FormatTimeFromZero(time) ==
  LET t == ParseTime(time)
  IN ToString(t[1] % 12) \o ":" \o Pad2(t[2]) \o " " \o (IF t[1] >= 12 THEN "PM" ELSE "AM")

\* formatTime:
\* toLocaleTimeString('en-US', { hour: 'numeric', minute: '2-digit', hour12: true })
FormatTime(time) ==
  LET t == ParseTime(time)
      hour12 == IF t[1] % 12 = 0 THEN 12 ELSE t[1] % 12
  IN ToString(hour12) \o ":" \o Pad2(t[2]) \o " " \o (IF t[1] >= 12 THEN "PM" ELSE "AM")

\* Math.round(n / d) for d > 0: the nearest integer, a half rounding up.
MathRound(n, d) == (2 * n + d) \div (2 * d)

\* The whole minutes m >= 60 with m / 60 halfway between two tenths for which the
\* binary64 quotient diffMs / 3600000 lies below the halfway point, so that
\* toFixed(1) gives the lower tenth. (The other halfway quotients are exact or
\* lie above it.)
HalvesBelow ==
  {
   69, 87, 99, 117, 123, 129, 153, 159, 183, 189, 213, 219, 243, 261,
   273, 291, 303, 321, 333, 351, 363, 381, 393, 411, 423, 441, 453, 471,
   501, 507, 531, 537, 561, 567, 591, 597, 621, 627, 651, 657, 681, 687,
   711, 717, 741, 747, 771, 777, 801, 807, 831, 837, 861, 867, 891, 897,
   921, 927, 951, 957, 969, 987, 999, 1017, 1029, 1047, 1059, 1077, 1089, 1107,
   1119, 1137, 1149, 1167, 1179, 1197, 1209, 1227, 1239, 1257, 1269, 1287, 1299, 1317,
   1329, 1347, 1359, 1377, 1389, 1407, 1419, 1437}

\* A number of tenths as toFixed prints it.
Tenths(n) == ToString(n \div 10) \o "." \o ToString(n % 10)

\* Number.prototype.toFixed(1) cutting the second decimal off instead of rounding
ToFixed1Down(ms) == Tenths(ms \div 360000)

\* (ms / 3600000).toFixed(1) for ms >= 0 a whole number of minutes: the nearest
\* number of tenths to the binary64 quotient, the larger of two equally near.
ToFixed1(ms) ==
  LET minutes == ms \div 60000
      lower == ms \div 360000
  IN IF 6 * lower + 3 < minutes \/ (6 * lower + 3 = minutes /\ minutes \notin HalvesBelow)
     THEN Tenths(lower + 1)
     ELSE Tenths(lower)

\* calculateDuration
CalculateDuration(startTime, endTime) ==
  IF Falsy(endTime) THEN ""
  ELSE LET diffMs == GetTime(endTime) - GetTime(startTime)
       IN IF diffMs < 1000 * 60 * 60
          THEN ToString(MathRound(diffMs, 1000 * 60)) \o "min"
          ELSE ToFixed1(diffMs) \o "h"

imgWidth == 210
pageHeight == 295

\* The loop of generatePDF: a page is added while heightLeft >= 0. Lengths are
\* kept multiplied by canvas.width, so that imgHeight = canvas.height * imgWidth
\* / canvas.width needs no division; pages collects each page's position.
RECURSIVE PagingLoop(_, _, _, _)
PagingLoop(heightLeft, imgHeight, page, pages) ==
  IF heightLeft >= 0
  THEN PagingLoop(heightLeft - page, imgHeight, page, Append(pages, heightLeft - imgHeight))
  ELSE pages

\* The positions, times canvas.width, at which generatePDF draws the image, page
\* after page.
PagePositions(canvas) ==
  LET imgHeight == canvas.height * imgWidth
      page == pageHeight * canvas.width
  IN PagingLoop(imgHeight - page, imgHeight, page, <<0>>)

\* Canvases html2canvas may return: the sheet rendered at scale 2, as wide as a
\* page or twice that, of any height.
Canvases == {[width |-> w, height |-> h] : w \in {2 * imgWidth, 4 * imgWidth},
                                           h \in 1..MaxCanvasHeight}

NoCanvas == [width |-> 1, height |-> 0]
NoTimes == <<>>

\* What a derivation is applied to.
Input(fn, start, end, canvas) == [fn |-> fn, start |-> start, end |-> end, canvas |-> canvas]
Output(label, pages) == [label |-> label, pages |-> pages]

\* An item's start and end time, the end possibly missing; an item's start time;
\* a rendered canvas.
Inputs ==
  {Input("calculateDuration", s, e, NoCanvas) :
     s \in {<<0, 0>>, <<9, 0>>}, e \in {NoTimes} \cup ClockTimes}
    \cup {Input("formatTime", t, NoTimes, NoCanvas) : t \in ClockTimes}
    \cup {Input("paginate", NoTimes, NoTimes, c) : c \in Canvases}

PureIdle ==
  /\ applied = "none"
  /\ input = Input("none", NoTimes, NoTimes, NoCanvas)
  /\ output = Output("", <<>>)

\* The item's end time as the row holds it: null when it has none.
EndTime(in) == IF in.end = NoTimes THEN Null ELSE TimeOfDay(in.end)

ApplyCalculateDuration ==
  /\ applied = "none" /\ input.fn = "calculateDuration"
  /\ applied' = "calculateDuration"
  /\ output' = Output(CalculateDuration(TimeOfDay(input.start), EndTime(input)), <<>>)
  /\ UNCHANGED <<input, view, ops, looksVars, schedVars, sheetVars, last>>

ApplyFormatTime ==
  /\ applied = "none" /\ input.fn = "formatTime"
  /\ applied' = "formatTime"
  /\ output' = Output(FormatTime(TimeOfDay(input.start)), <<>>)
  /\ UNCHANGED <<input, view, ops, looksVars, schedVars, sheetVars, last>>

ApplyPaging ==
  /\ applied = "none" /\ input.fn = "paginate"
  /\ applied' = "paginate"
  /\ output' = Output("", PagePositions(input.canvas))
  /\ UNCHANGED <<input, view, ops, looksVars, schedVars, sheetVars, last>>

\* ------------------------------------------------------ call-sheet export
\* Canvases the model's exports are given: under a page high, and exactly two
\* pages high.
ExportCanvases == {[width |-> 2 * imgWidth, height |-> 400],
                   [width |-> 2 * imgWidth, height |-> 4 * pageHeight]}

\* `${production.name} - Call Sheet.pdf`
FileName(production) == production.name \o " - Call Sheet.pdf"

\* generatePDF, up to the await of html2canvas; the button is disabled while an
\* export runs
GeneratePDF ==
  /\ Mounted("callsheet") /\ SheetShown /\ CanIssue
  /\ ~generating
  /\ generating' = TRUE
  /\ cpend' = cpend (+) SetToBag({CReq("html2canvas", 0, "",
                                       FileName(CHOOSE x \in sheetProduction : TRUE),
                                       NoCrew, <<>>)})
  /\ last' = Step("generatePDF", 0, 1, FALSE)
  /\ ops' = ops + 1
  /\ UNCHANGED <<sheetProduction, crew, sheetLooks, sheetLoading, saved, newCrew,
                 remoteProduction, remoteCrew, nextCrewId>>

\* generatePDF that saves a first page before the rest has been drawn
GeneratePDFDoneSavingEarly(r, ok, canvas) ==
  /\ Mounted("callsheet") /\ r \in Pending(cpend) /\ r.kind = "html2canvas"
  /\ cpend' = cpend (-) SetToBag({r})
  /\ saved' = IF ok THEN Document(r.value, PagePositions(canvas))
              ELSE Document(r.value, <<0>>)
  /\ last' = Step(IF ok THEN "generatePDF:ok" ELSE "generatePDF:error", 0, 0, ~ok)
  /\ generating' = FALSE
  /\ UNCHANGED <<ops, sheetProduction, crew, sheetLooks, sheetLoading, newCrew,
                 remoteProduction, remoteCrew, nextCrewId>>

\* generatePDF, from html2canvas settling on: with a canvas, the pages are drawn
\* and the document saved; a rejection, or an exception while drawing, is caught
\* and alerted. setGenerating(false) follows either way.
GeneratePDFDone(r, ok, canvas) ==
  /\ Mounted("callsheet") /\ r \in Pending(cpend) /\ r.kind = "html2canvas"
  /\ cpend' = cpend (-) SetToBag({r})
  /\ IF ok
     THEN /\ saved' = Document(r.value, PagePositions(canvas))
          /\ last' = Step("generatePDF:ok", 0, 0, FALSE)
     ELSE /\ last' = Step("generatePDF:error", 0, 0, TRUE)
          /\ UNCHANGED saved
  /\ generating' = FALSE
  /\ UNCHANGED <<ops, sheetProduction, crew, sheetLooks, sheetLoading, newCrew,
                 remoteProduction, remoteCrew, nextCrewId>>

ExportNext ==
  \/ GeneratePDF
  \/ \E r \in Pending(cpend), ok \in BOOLEAN, c \in ExportCanvases : GeneratePDFDone(r, ok, c)

\* ---------------------------------------------------- call-sheet document
\* One piece of the preview: the section it is in, its caption, its text.
Piece(section, caption, text) == <<[section |-> section, caption |-> caption, text |-> text]>>

\* An element rendered whatever its condition
WhenAlways(cond, pieces) == pieces

\* {cond && (...)}
When(cond, pieces) == IF cond THEN pieces ELSE <<>>

\* new Date(d).toLocaleDateString()
LocaleDate(d) == "localeDate(" \o d \o ")"

RECURSIVE CrewRows(_)
CrewRows(list) ==
  IF list = <<>> THEN <<>>
  ELSE Piece("CREW", Head(list).name,
             Head(list).role \o " " \o OrElse(Head(list).call_time, "-") \o " "
               \o OrElse(Head(list).phone, "-"))
       \o CrewRows(Tail(list))

LookLines(list) ==
  [k \in 1..Len(list) |->
     [section |-> "LOOKS", caption |-> "Look " \o ToString(k), text |-> list[k].name]]

\* The call sheet preview, from its header to the special notes.
CallSheet(production, crewList, lookList) ==
  Piece("HEADER", "", "CALL SHEET")
  \o Piece("HEADER", "", production.name)
  \o When(~Falsy(production.client_name), Piece("HEADER", "Client", production.client_name))
  \o Piece("INFO", "Date", IF ~Falsy(production.shoot_date)
                           THEN LocaleDate(production.shoot_date) ELSE "TBD")
  \o Piece("INFO", "Call Time", OrElse(production.call_time, "TBD"))
  \o Piece("INFO", "Producer", OrElse(production.producer_name, "TBD"))
  \o Piece("INFO", "Phone", OrElse(production.producer_phone, "TBD"))
  \o Piece("LOCATION", "", "LOCATION")
  \o Piece("LOCATION", "Address", OrElse(production.location_address, "TBD"))
  \o When(~Falsy(production.location_details),
          Piece("LOCATION", "Details", production.location_details))
  \o When(~Falsy(production.parking_info),
          Piece("LOCATION", "Parking", production.parking_info))
  \o When(~Falsy(production.weather_backup),
          Piece("LOCATION", "Weather Backup", production.weather_backup))
  \o When(Len(crewList) > 0,
          Piece("CREW", "", "CREW") \o Piece("CREW", "Name", "Role Call Time Phone")
            \o CrewRows(crewList))
  \o When(Len(lookList) > 0, Piece("LOOKS", "", "LOOKS") \o LookLines(lookList))
  \o Piece("EMERGENCY CONTACTS", "", "EMERGENCY CONTACTS")
  \o Piece("EMERGENCY CONTACTS", "Producer",
           OrElse(production.producer_name, "TBD") \o " - "
             \o OrElse(production.producer_phone, "TBD"))
  \o Piece("EMERGENCY CONTACTS", "Emergency Services", "911")
  \o When(~Falsy(production.special_notes),
          Piece("SPECIAL NOTES", "", "SPECIAL NOTES")
            \o Piece("SPECIAL NOTES", "", production.special_notes))

\* The preview of the page's current state.
Preview == CallSheet(CHOOSE x \in sheetProduction : TRUE, crew, sheetLooks)

Views == {"looks", "schedule", "callsheet"}

Init ==
  /\ view \in Views
  /\ ops = 0
  /\ LooksInit
  /\ SchedInit
  /\ SheetInit
  /\ PureIdle
  /\ last = Step("mount", 0, 0, FALSE)

Next == LooksNext \/ SchedNext \/ SheetNext \/ ExportNext

Spec == Init /\ [][Next]_vars

\* Every query, write and rasterization settles: its promise resolves with data
\* or with an error.
Settle ==
  \/ \E ok \in BOOLEAN : LoadProduction(ok)
  \/ \E ok \in BOOLEAN : LoadLooks(ok)
  \/ \E r \in Pending(lpend), ok \in BOOLEAN :
        \/ CreateLookDone(r, ok)
        \/ UpdateImageUrlDone(r, ok)
        \/ UploadImageDone(r, ok)
        \/ SeqWriteDone(r, ok)
        \/ DeleteLookDone(r, ok)
  \/ \E a, b, c \in BOOLEAN : LoadData(a, b, c)
  \/ \E r \in Pending(spend), ok \in BOOLEAN :
        \/ AddScheduleItemDone(r, ok)
        \/ DeleteScheduleItemDone(r, ok)
        \/ ApplyTemplateDeleteDone(r, ok)
        \/ ApplyTemplateInsertDone(r, ok)
  \/ \E a, b, c \in BOOLEAN : SheetLoadData(a, b, c)
  \/ \E r \in Pending(cpend), ok \in BOOLEAN :
        \/ UpdateProductionDone(r, ok)
        \/ AddCrewMemberDone(r, ok)
        \/ RemoveCrewMemberDone(r, ok)
  \/ \E r \in Pending(cpend), ok \in BOOLEAN, c \in ExportCanvases : GeneratePDFDone(r, ok, c)

\* The three views when no request stays unanswered forever.
SpecFair == Spec /\ WF_vars(Settle)

\* The display derivations, each applied to every value it may be given. They
\* read no state of the page that calls them.
InitPure ==
  /\ view = "schedule"
  /\ ops = 0
  /\ LooksInit
  /\ SchedInit /\ remoteItems = {ForeignItem}
  /\ SheetInit
  /\ last = Step("mount", 0, 0, FALSE)
  /\ applied = "none"
  /\ input \in Inputs
  /\ output = Output("", <<>>)

NextPure == ApplyCalculateDuration \/ ApplyFormatTime \/ ApplyPaging

SpecPure == InitPure /\ [][NextPure]_vars

\* The looks view when every request succeeds and the user waits for an
\* operation to complete before starting the next. The store holds no look of
\* this production, or the two looks that two such createLook calls leave.
InitOrderly ==
  /\ Init
  /\ view = "looks"
  /\ \A x \in remoteLooks : x.pid = ThisProd => x.seq = x.id - 1

Idle == lpend = EmptyBag

NextOrderly ==
  \/ LoadProduction(TRUE)
  \/ LoadLooks(TRUE)
  \/ \E n \in Names : Idle /\ SetNewLookName(n)
  \/ Idle /\ CreateLook
  \/ \E r \in Pending(lpend) : CreateLookDone(r, TRUE)
  \/ \E i \in 0..MaxOps : Idle /\ MoveUp(i)
  \/ \E i \in 0..MaxOps : Idle /\ MoveDown(i)
  \/ \E r \in Pending(lpend) : SeqWriteDone(r, TRUE)
  \/ \E id \in LookIds : Idle /\ DeleteLook(id, TRUE)
  \/ \E r \in Pending(lpend) : DeleteLookDone(r, TRUE)

SpecOrderly == InitOrderly /\ [][NextOrderly]_vars

\* The same looks view over any store earlier visits may have left, the shifted
\* one included.
InitReload ==
  /\ view = "looks"
  /\ ops = 0
  /\ LooksOver(InitialLooks \cup {StoreOf(ShiftedSeq)})
  /\ SchedInit
  /\ SheetInit
  /\ PureIdle
  /\ last = Step("mount", 0, 0, FALSE)

SpecReload == InitReload /\ [][NextOrderly]_vars

\* The looks view when the user only adds looks and reorders them, operations
\* may be issued back to back, and every request succeeds.
InitMoves == Init /\ view = "looks"

NextMoves ==
  \/ LoadProduction(TRUE)
  \/ LoadLooks(TRUE)
  \/ \E n \in Names : SetNewLookName(n)
  \/ CreateLook
  \/ \E r \in Pending(lpend) : CreateLookDone(r, TRUE)
  \/ \E i \in 0..MaxOps : MoveUp(i)
  \/ \E i \in 0..MaxOps : MoveDown(i)
  \/ \E r \in Pending(lpend) : SeqWriteDone(r, TRUE)

SpecMoves == InitMoves /\ [][NextMoves]_vars

\* The looks view when the user creates looks, sets images and deletes looks,
\* operations may be issued back to back, and every request succeeds.
NextOverlap ==
  \/ LoadProduction(TRUE)
  \/ LoadLooks(TRUE)
  \/ \E n \in Names : SetNewLookName(n)
  \/ CreateLook
  \/ \E r \in Pending(lpend) : CreateLookDone(r, TRUE)
  \/ \E id \in LookIds, url \in Urls : UpdateImageUrl(id, url)
  \/ \E r \in Pending(lpend) : UpdateImageUrlDone(r, TRUE)
  \/ \E id \in LookIds : UploadImage(id)
  \/ \E r \in Pending(lpend) : UploadImageDone(r, TRUE)
  \/ \E id \in LookIds, c \in BOOLEAN : DeleteLook(id, c)
  \/ \E r \in Pending(lpend) : DeleteLookDone(r, TRUE)

SpecOverlap == InitMoves /\ [][NextOverlap]_vars

\* ------------------------------------------------------------ properties
\* A look without regard to its sequence index.
Bare(o) == [o EXCEPT !.seq = 0]

\* The step just taken was a moveUp / moveDown that got past its guard; the
\* 1-based position of the upper of the two entries it exchanged.
MovedUp == last'.op = "moveUp" /\ last'.arg > 0
MovedDown == last'.op = "moveDown" /\ last'.arg < Len(looks) - 1
UpperPos == IF last'.op = "moveUp" THEN last'.arg ELSE last'.arg + 1

\* C1: moveUp(i), 0 < i < N, and moveDown(i), 0 <= i < N-1, exchange the two
\* neighbouring looks in the local list, and each of the two then carries its
\* new (0-based) position as its sequence index.
C1_MoveExchangesNeighbours ==
  [][(MovedUp \/ MovedDown) =>
       LET p == UpperPos IN
       /\ Len(looks') = Len(looks)
       /\ Bare(Shown'[p]) = Bare(Shown[p + 1])
       /\ Bare(Shown'[p + 1]) = Bare(Shown[p])
       /\ Shown'[p].seq = p - 1
       /\ Shown'[p + 1].seq = p]_vars

C1_Witness ==
  /\ last.op = "moveUp" /\ last.arg = 2 /\ last.writes = 2
  /\ Len(looks) = 3
  /\ Shown[2].seq = 1 /\ Shown[3].seq = 2

\* C2: moveUp(0) and moveDown(N-1) change nothing: not the local list, not a
\* sequence index, not the store, and they issue no request.
C2_EdgeMovesChangeNothing ==
  [][((last'.op = "moveUp" /\ last'.arg = 0)
        \/ (last'.op = "moveDown" /\ last'.arg = Len(looks) - 1)) =>
       /\ UNCHANGED looksVars
       /\ last'.writes = 0]_vars

C2_Witness ==
  /\ last.op = "moveDown" /\ last.arg = Len(looks) - 1 /\ last.writes = 0
  /\ Len(looks) >= 2

\* C8: a move reassigns the index of the two exchanged looks only and issues
\* exactly two index updates, one for each of them; every other look keeps its
\* position and index locally, the store is untouched by the call, and each
\* update, when the store answers it, touches only the row it names.
C8_MoveTouchesTwoLooks ==
  [][/\ (MovedUp \/ MovedDown) =>
          LET p     == UpperPos
              moved == {Shown[p].id, Shown[p + 1].id}
              added == lpend' (-) lpend
          IN /\ \A k \in 1..Len(looks) : k \notin {p, p + 1} => Shown'[k] = Shown[k]
             /\ remoteLooks' = remoteLooks
             /\ lpend (+) added = lpend'
             /\ BagCardinality(added) = 2
             /\ {r.id : r \in BagToSet(added)} = moved
             /\ \A r \in BagToSet(added) : r.kind = "seq"
             /\ last'.writes = 2
     /\ last'.op \in {"seq:ok", "seq:error"} =>
          /\ Shown' = Shown
          /\ {r \in remoteLooks' : r.id # last'.arg} = {r \in remoteLooks : r.id # last'.arg}]_vars

C8_Witness ==
  /\ last.op = "moveUp" /\ last.arg = 1 /\ last.writes = 2
  /\ Len(looks) = 3
  /\ Shown[3].seq = 3

\* C4: after any sequence of successful createLook, moveUp, moveDown and
\* deleteLook operations, each look's sequence index equals its position in the
\* list, so the indices are unique and contiguous from 0.
C4_IndicesArePositions ==
  (~loading /\ Idle) => \A k \in 1..Len(looks) : Shown[k].seq = k - 1

\* The remote row of the look with this identity.
RemoteLook(id) == CHOOSE x \in remoteLooks : x.id = id

\* C7: once no sequence-index write is in flight, every write having succeeded,
\* the store's sequence index of each look equals the look's local sequence
\* index, in whatever order the writes of back-to-back moves completed.
C7_RemoteAgreesAfterMoves ==
  (~loading /\ \A r \in Pending(lpend) : r.kind # "seq") =>
     \A k \in 1..Len(looks) :
        (\E x \in remoteLooks : x.id = Shown[k].id) =>
           RemoteLook(Shown[k].id).seq = Shown[k].seq

\* ------------------------------------------------- schedule view properties
\* max(existing indices) + 1, or 0 in an empty sibling list
MaxPlusOne(S) == IF S = {} THEN 0 ELSE Max(S) + 1

\* C3: a created entity is given sequence index (maximum among its current
\* siblings) + 1, or 0 when it has no siblings, by createLook and by
\* addScheduleItem alike, also when earlier deletions left gaps.
C3_NextIndexIsMaxPlusOne ==
  [][/\ (last'.op = "createLook" /\ last'.writes = 1) =>
          \A r \in Pending(lpend' (-) lpend) :
             r.seq = MaxPlusOne({Shown[k].seq : k \in 1..Len(looks)})
     /\ (last'.op = "addScheduleItem" /\ last'.writes = 1) =>
          \A r \in Pending(spend' (-) spend) :
             r.rows[1].sequence_order =
               MaxPlusOne({scheduleItems[k].sequence_order : k \in 1..Len(scheduleItems)})
    ]_vars

TemplateById(id) ==
  TemplateCatalog[CHOOSE t \in 1..Len(TemplateCatalog) : TemplateCatalog[t].id = id]

\* The item is what the blueprint stands for: title and start time passed
\* through, an optional field passed through when present, defaulted when absent.
Mirrors(item, blueprint) ==
  /\ item.pid = ThisProd
  /\ item.title = blueprint.title
  /\ item.start_time = blueprint.start_time
  /\ item.description = (IF blueprint.description \in {Undefined, Null} THEN ""
                         ELSE blueprint.description)
  /\ item.category = (IF blueprint.category \in {Undefined, ""} THEN "general"
                      ELSE blueprint.category)
  /\ \A f \in {"end_time", "location", "notes"} :
       item[f] = (IF blueprint[f] \in {Undefined, Null, ""} THEN Null ELSE blueprint[f])

MirrorsTemplate(items, templateData) ==
  /\ Len(items) = Len(templateData)
  /\ \A k \in 1..Len(items) :
       /\ items[k].sequence_order = k - 1
       /\ Mirrors(items[k], templateData[k])

\* C5: applyTemplate called with an empty schedule, the insert succeeding, creates
\* exactly len(blueprint) items, in blueprint order, with sequence indices
\* 0..len-1, the blueprint's title and start time, and the defaults for absent
\* optional fields.
C5_TemplateOnEmptySchedule ==
  [][(last'.op = "applyTemplate:ok" /\ last'.ctx = "empty") =>
       /\ MirrorsTemplate(scheduleItems', TemplateById(last'.arg).template_data)
       /\ Cardinality(Range(scheduleItems')) = Len(scheduleItems')
       /\ remoteItems' \ remoteItems = Range(scheduleItems')
       /\ remoteItems \subseteq remoteItems'
    ]_vars

C5_Witness ==
  /\ last.op = "applyTemplate:ok" /\ last.ctx = "empty" /\ last.arg = 1
  /\ Len(scheduleItems) = 2
  /\ scheduleItems[1].category = "general" /\ scheduleItems[1].end_time = Null
  /\ scheduleItems[2].category = "shoot" /\ scheduleItems[2].sequence_order = 1

\* The request whose answer this step handles.
Answered == CHOOSE r \in Pending(spend) : spend (-) SetToBag({r}) = spend' (-) (spend' (-) spend)

\* C6: applyTemplate called with a non-empty schedule changes nothing when the
\* user does not confirm; when the user confirms and both the bulk delete and
\* the insert succeed, no item that existed remains in the store or in the local
\* list, and the local list is the template's items in blueprint order.
C6_TemplateOnNonEmptySchedule ==
  [][/\ (last'.op = "applyTemplate" /\ last'.writes = 0) =>
          (Len(scheduleItems) > 0 /\ UNCHANGED schedVars)
     /\ last'.op = "applyTemplate:delete:ok" =>
          {x \in remoteItems' : x.pid = ThisProd} = {}
     /\ (last'.op = "applyTemplate:ok" /\ last'.ctx = "deleted") =>
          /\ MirrorsTemplate(scheduleItems', TemplateById(last'.arg).template_data)
          /\ Range(scheduleItems') \subseteq remoteItems'
          /\ Len(Answered.snap) > 0
          /\ \A k \in 1..Len(Answered.snap) :
               /\ Answered.snap[k].id \notin {x.id : x \in remoteItems'}
               /\ Answered.snap[k].id \notin {x.id : x \in Range(scheduleItems')}
    ]_vars

C6_Witness ==
  /\ last.op = "applyTemplate:ok" /\ last.ctx = "deleted" /\ last.arg = 3
  /\ Len(scheduleItems) = 1 /\ scheduleItems[1].title = "Wrap"
  /\ {x \in remoteItems : x.pid = ThisProd} = Range(scheduleItems)

\* C9: once loaded, the list the schedule view displays is in ascending
\* start-time order.
C9_DisplayedInStartTimeOrder ==
  ~schedLoading =>
    \A k \in 1..(Len(scheduleItems) - 1) :
       TimeRank(scheduleItems[k].start_time) <= TimeRank(scheduleItems[k + 1].start_time)

\* ------------------------------------------------ error-handling properties
SingleEntityActions ==
  {"addScheduleItem", "deleteScheduleItem", "createLook", "deleteLook", "updateImageUrl",
   "uploadImage", "addCrewMember", "removeCrewMember", "updateProduction"}

FailedWrite(op) == \E a \in SingleEntityActions : op = a \o ":error"

\* What a looks-view request puts on the wire.
Sent(r) == [kind |-> r.kind, id |-> r.id, seq |-> r.seq, img |-> r.img, name |-> r.name]

\* Every request in flight, whatever its view.
InFlight == BagCardinality(lpend) + BagCardinality(spend) + BagCardinality(cpend)

\* C10: when the remote write of a single-entity action fails, the step that
\* handles the failure leaves the view's local entities as they were and issues
\* no request: the write is not retried.
C10_FailedWriteLeavesLocalState ==
  [][FailedWrite(last'.op) =>
       /\ Shown' = Shown
       /\ scheduleItems' = scheduleItems
       /\ crew' = crew /\ sheetProduction' = sheetProduction /\ sheetLooks' = sheetLooks
       /\ remoteLooks' = remoteLooks /\ remoteItems' = remoteItems
       /\ remoteCrew' = remoteCrew /\ remoteProduction' = remoteProduction
       /\ {Sent(r) : r \in Pending(lpend')} \subseteq {Sent(r) : r \in Pending(lpend)}
       /\ spend' \sqsubseteq spend /\ cpend' \sqsubseteq cpend
       /\ InFlight' = InFlight - 1
    ]_vars

C10_Witness ==
  /\ last.op = "removeCrewMember:error" /\ last.arg = 1
  /\ Len(crew) = 2 /\ 1 \in CrewIds
  /\ \E x \in remoteCrew : x.id = 1
  /\ cpend = EmptyBag

\* --------------------------------------------- failure and race properties
\* C11: when the bulk delete of a confirmed template expansion fails, the
\* failure is detected before the insert: an alert is raised and no insert is
\* issued.
C11_DeleteFailureStopsExpansion ==
  [][last'.op = "applyTemplate:delete:error" =>
       /\ last'.alert
       /\ BagCardinality(spend') < BagCardinality(spend)
       /\ \A r \in Pending(spend') : r.kind = "insert" => r \in Pending(spend)
    ]_vars

\* The sequence-index update whose answer this step handles.
AnsweredWrite ==
  CHOOSE r \in Pending(lpend) : r.kind = "seq" /\ r.id = last'.arg /\ lpend' (+) SetToBag({r}) = lpend

\* The local look with this identity, if the list shows one.
LocalLook(id) == CHOOSE k \in 1..Len(looks) : Shown[k].id = id

\* A failed write of a move leaves list, store and requests as they were, silently.
NoRollbackNoAlert ==
  /\ Shown' = Shown
  /\ ~last'.alert
  /\ remoteLooks' = remoteLooks
  /\ lpend' \sqsubseteq lpend

\* C12 as stated: when one write of a move fails there is no rollback and no
\* alert, and the store's index of that look differs from the local one.
C12_FailedMoveWriteDisagrees ==
  [][last'.op = "seq:error" =>
       /\ NoRollbackNoAlert
       /\ (last'.arg \in LocalIds /\ \E x \in remoteLooks : x.id = last'.arg) =>
            RemoteLook(last'.arg).seq # Shown'[LocalLook(last'.arg)].seq
    ]_vars

\* C12, amended: when one write of a move fails there is no rollback and no
\* alert, and the store keeps the index it had for that look, which differs from
\* the index the write carried unless the store already held that value.
C12_FailedMoveWriteKeepsStore ==
  [][last'.op = "seq:error" =>
       /\ NoRollbackNoAlert
       /\ (last'.arg \in LocalIds /\ (\E x \in remoteLooks : x.id = last'.arg)
           /\ Shown[LocalLook(last'.arg)].seq = AnsweredWrite.seq
           /\ RemoteLook(last'.arg).seq # AnsweredWrite.seq) =>
            RemoteLook(last'.arg).seq # Shown'[LocalLook(last'.arg)].seq
    ]_vars

C12_Witness ==
  /\ last.op = "seq:error" /\ last.arg = 2
  /\ Len(looks) = 2 /\ Shown[1].id = 2 /\ Shown[1].seq = 0 /\ Shown[2].seq = 1
  /\ RemoteLook(2).seq = 1
  /\ lpend = EmptyBag

\* C13: createLook reads the sibling list it was rendered with: a call made while
\* another creation over the same list awaits its answer sends the same next
\* index, and the store keeps every row with the index it was sent.
C13_ConcurrentCreatesShareIndex ==
  [][/\ (last'.op = "createLook" /\ last'.writes = 1) =>
          \A new \in Pending(lpend' (-) lpend), r \in Pending(lpend) :
             (r.kind = "insert" /\ r.snap = new.snap) => new.seq = r.seq
     /\ last'.op = "createLook:ok" =>
          /\ remoteLooks \subseteq remoteLooks'
          /\ \A row \in remoteLooks' \ remoteLooks :
               /\ row.id = last'.arg
               /\ \E r \in Pending(lpend) :
                    r.kind = "insert" /\ r.seq = row.seq /\ r.name = row.name
          /\ Cardinality(remoteLooks' \ remoteLooks) = 1
    ]_vars

C13_Witness ==
  /\ last.op = "createLook:ok"
  /\ lpend = EmptyBag
  /\ Cardinality({x \in remoteLooks : x.pid = ThisProd}) = 2
  /\ \A x \in remoteLooks : x.seq = 0

\* ------------------------------------------- display derivation properties
\* C14: the exported document has exactly ceil(H / P) pages for an image of
\* height H > 0 and page height P = 295, none extra when H is a multiple of P,
\* and page k, counting from 0, draws the image at vertical offset -k * P.
C14_OnePagePerBand ==
  applied = "paginate" =>
    LET H == input.canvas.height * imgWidth
        P == pageHeight * input.canvas.width
    IN /\ Len(output.pages) = (H + P - 1) \div P
       /\ \A k \in 1..Len(output.pages) : output.pages[k] = -((k - 1) * P)

\* Minutes from the start time to the end time of the input.
Elapsed == (input.end[1] * 60 + input.end[2]) - (input.start[1] * 60 + input.start[2])

\* The label is a number of hours with one decimal, and no number with one
\* decimal is nearer to minutes / 60.
NearestTenthOfHours(label, minutes) ==
  \E n \in 0..240 :
     /\ label = ToString(n \div 10) \o "." \o ToString(n % 10) \o "h"
     /\ 6 * n - minutes <= 3 /\ minutes - 6 * n <= 3

\* The steps that handle a failed read, write or export.
FailureOps ==
  {"loadProduction:error", "loadLooks:error", "createLook:error", "updateImageUrl:error",
   "uploadImage:error", "seq:error", "deleteLook:error", "addScheduleItem:error",
   "deleteScheduleItem:error", "applyTemplate:delete:error", "applyTemplate:error",
   "updateProduction:error", "addCrewMember:error", "removeCrewMember:error",
   "generatePDF:error"}

Failed ==
  \/ last.op \in FailureOps
  \/ last.op \in {"loadData", "sheetLoadData"} /\ last.ctx # Outcome(TRUE, TRUE, TRUE)

\* The mounted view shows its controls: it is past its skeleton and, for the
\* call sheet, past its "Production not found" page.
Available ==
  CASE view = "looks" -> ~loading
    [] view = "schedule" -> ~schedLoading
    [] view = "callsheet" -> SheetShown

\* The call sheet's "Production not found" page, with its Back button only.
NotFound == view = "callsheet" /\ ~sheetLoading /\ sheetProduction = {}

\* The mounted view's loading flag, and its other busy flag: uploading in the
\* looks view, generating on the call sheet.
Loading ==
  CASE view = "looks" -> loading
    [] view = "schedule" -> schedLoading
    [] view = "callsheet" -> sheetLoading

Working ==
  CASE view = "looks" -> uploading # {}
    [] view = "schedule" -> FALSE
    [] view = "callsheet" -> generating

\* Each busy flag of the mounted view, once set, is cleared.
FlagsClear == (Loading ~> ~Loading) /\ (Working ~> ~Working)

\* C16 (as stated): no failure leaves the interface stuck: every busy flag that
\* is set is eventually cleared, and after a failed read, write or export the
\* view's actions are available.
C16_NeverStuck == FlagsClear /\ (Failed ~> Available)

\* C16 (amended): every busy flag that is set is eventually cleared, and after a
\* failed read, write or export the view's actions are available, unless the
\* call sheet's read of the production failed: that page then shows "Production
\* not found" with no action but Back.
C16_NeverStuckButNotFound == FlagsClear /\ (Failed ~> (Available \/ NotFound))

\* an upload has failed, its flag is cleared and the list is shown
C16_Witness ==
  /\ last.op = "uploadImage:error" /\ last.alert
  /\ uploading = {} /\ ~loading /\ looks # <<>>

\* Three collections after a load whose reads went a, b, c: each is as its query
\* returned it when the read succeeded, and empty when it failed.
Loaded(a, b, c, production, stored, list, lists, third, thirds) ==
  /\ production = (IF a THEN {stored} ELSE {})
  /\ IF b THEN list \in lists ELSE list = <<>>
  /\ IF c THEN third \in thirds ELSE third = <<>>

\* C17: a read that fails during a view's initial load leaves that collection
\* empty (the production absent), the other collections are loaded all the
\* same, and the load ends with the loading flag false.
C17_FailedReadIsNoData ==
  [][/\ last'.op = "loadData" =>
          /\ ~schedLoading'
          /\ \A a, b, c \in BOOLEAN :
               last'.ctx = Outcome(a, b, c) =>
                 Loaded(a, b, c, schedProduction', [id |-> ThisProd, name |-> "A"],
                        scheduleItems', SelectItems(remoteItems),
                        templates', {SelectTemplates(TemplateCatalog)})
     /\ last'.op = "sheetLoadData" =>
          /\ ~sheetLoading'
          /\ \A a, b, c \in BOOLEAN :
               last'.ctx = Outcome(a, b, c) =>
                 Loaded(a, b, c, sheetProduction', remoteProduction,
                        crew', SelectCrew(remoteCrew),
                        sheetLooks', {SheetLookList(rows) : rows \in SelectLooks(remoteLooks)})
     /\ last'.op = "loadLooks:error" =>
          /\ looks' = <<>> /\ ~loading'
          /\ UNCHANGED looksProduction
     /\ last'.op = "loadLooks:ok" =>
          /\ [k \in 1..Len(looks') |-> heap'[looks'[k]]]
               \in {[k \in 1..Len(rows) |-> ObjOf(rows[k])] : rows \in SelectLooks(remoteLooks)}
          /\ ~loading'
          /\ UNCHANGED looksProduction
     /\ last'.op = "loadProduction:error" =>
          /\ looksProduction' = {}
          /\ UNCHANGED <<looks, heap, loading>>
     /\ last'.op = "loadProduction:ok" =>
          /\ looksProduction' = {[id |-> ThisProd, name |-> remoteProduction.name]}
          /\ UNCHANGED <<looks, heap, loading>>]_vars

\* the schedule view after a load whose items read failed: the store has items
\* of the production, the list is empty, the production and templates are there
C17_Witness ==
  /\ last.op = "loadData" /\ last.ctx = Outcome(TRUE, FALSE, TRUE)
  /\ \E r \in remoteItems : r.pid = ThisProd
  /\ scheduleItems = <<>> /\ templates # <<>> /\ schedProduction # {}
  /\ ~schedLoading

\* C18: calculateDuration returns the empty string when there is no end time,
\* the whole minutes followed by 'min' when the interval is under 60 minutes,
\* and otherwise the hours rounded to one decimal place followed by 'h'.
C18_DurationLabel ==
  applied = "calculateDuration" =>
    /\ input.end = NoTimes => output.label = ""
    /\ (input.end # NoTimes /\ Elapsed < 60) => output.label = ToString(Elapsed) \o "min"
    /\ (input.end # NoTimes /\ Elapsed >= 60) => NearestTenthOfHours(output.label, Elapsed)
    /\ (input.start = <<9, 0>> /\ input.end = <<9, 30>>) => output.label = "30min"
    /\ (input.start = <<9, 0>> /\ input.end = <<11, 30>>) => output.label = "2.5h"
    /\ (input.start = <<9, 0>> /\ input.end = <<10, 0>>) => output.label = "1.0h"

C18_Witness ==
  /\ applied = "calculateDuration"
  /\ input.start = <<9, 0>> /\ input.end = <<11, 30>>
  /\ output.label = "2.5h"

\* The minute of a time with two digits.
TwoDigits(m) == IF m < 10 THEN "0" \o ToString(m) ELSE ToString(m)

\* C19: formatTime shows hour 0 as 12 AM, hours 1 to 11 as AM, hour 12 as 12 PM
\* and hours 13 to 23 as hour - 12 PM, the hour without a leading zero and the
\* minute with two digits.
C19_TwelveHourLabel ==
  applied = "formatTime" =>
    LET hour == input.start[1]
        minute == TwoDigits(input.start[2])
    IN /\ hour = 0 => output.label = "12:" \o minute \o " AM"
       /\ hour \in 1..11 => output.label = ToString(hour) \o ":" \o minute \o " AM"
       /\ hour = 12 => output.label = "12:" \o minute \o " PM"
       /\ hour \in 13..23 => output.label = ToString(hour - 12) \o ":" \o minute \o " PM"

C19_Witness ==
  /\ applied = "formatTime"
  /\ input.start = <<13, 5>>
  /\ output.label = "1:05 PM"

\* C15: when drawing the call sheet or assembling the document fails, the export
\* is abandoned: an alert is raised, no document is saved, and the production,
\* the crew and the looks, on the page and in the store, are as they were.
C15_FailedExportChangesNothing ==
  [][last'.op = "generatePDF:error" =>
       /\ last'.alert
       /\ saved' = saved
       /\ UNCHANGED <<sheetProduction, crew, sheetLooks, remoteProduction, remoteCrew,
                      remoteLooks>>
       /\ ~generating']_vars

\* an export has failed on a sheet with a crew member on it, and nothing is saved
C15_Witness ==
  /\ last.op = "generatePDF:error" /\ last.alert
  /\ saved = NoDocument /\ ~generating
  /\ crew # <<>> /\ sheetProduction # {}

\* Where the preview puts each optional field of the production.
Place(field) ==
  CASE field = "client_name" -> <<"HEADER", "Client">>
    [] field = "shoot_date" -> <<"INFO", "Date">>
    [] field = "call_time" -> <<"INFO", "Call Time">>
    [] field = "producer_name" -> <<"INFO", "Producer">>
    [] field = "producer_phone" -> <<"INFO", "Phone">>
    [] field = "location_address" -> <<"LOCATION", "Address">>
    [] field = "location_details" -> <<"LOCATION", "Details">>
    [] field = "parking_info" -> <<"LOCATION", "Parking">>
    [] field = "weather_backup" -> <<"LOCATION", "Weather Backup">>
    [] field = "special_notes" -> <<"SPECIAL NOTES", "">>

HasSection(doc, section) == \E k \in 1..Len(doc) : doc[k].section = section

\* The texts the document shows at a field's place.
TextsAt(doc, field) ==
  {doc[k].text : k \in {j \in 1..Len(doc) : <<doc[j].section, doc[j].caption>> = Place(field)}}

Absent(field) == Falsy((CHOOSE x \in sheetProduction : TRUE)[field])

SectionsFollowLists ==
  /\ HasSection(Preview, "CREW") <=> crew # <<>>
  /\ HasSection(Preview, "LOOKS") <=> sheetLooks # <<>>

\* The fields whose line is always there, and those whose line is conditional.
FallbackFields ==
  {"shoot_date", "call_time", "producer_name", "producer_phone", "location_address"}
OmittedFields == ProductionFields \ FallbackFields

\* C20 (as stated): the call sheet has the crew section exactly when there is
\* crew and the looks section exactly when there are looks, and shows 'TBD' at
\* the place of every absent optional field of the production.
C20_TBDForEveryAbsentField ==
  SheetShown =>
    /\ SectionsFollowLists
    /\ \A f \in ProductionFields : Absent(f) => TextsAt(Preview, f) = {"TBD"}

\* C20 (amended): the call sheet has the crew section exactly when there is crew
\* and the looks section exactly when there are looks; it shows 'TBD' at the
\* place of an absent date, call time, producer name, producer phone or address,
\* and leaves out the line of any other absent field.
C20_TBDOrOmitted ==
  SheetShown =>
    /\ SectionsFollowLists
    /\ \A f \in FallbackFields : Absent(f) => TextsAt(Preview, f) = {"TBD"}
    /\ \A f \in OmittedFields : Absent(f) <=> TextsAt(Preview, f) = {}

\* a sheet with looks and no crew, with a client but neither a call time nor
\* parking information
C20_Witness ==
  /\ SheetShown /\ crew = <<>> /\ sheetLooks # <<>>
  /\ ~HasSection(Preview, "CREW") /\ HasSection(Preview, "LOOKS")
  /\ Absent("call_time") /\ TextsAt(Preview, "call_time") = {"TBD"}
  /\ ~Absent("client_name") /\ Absent("parking_info")

\* The identities of the production's looks in the store.
RemoteIds == {r.id : r \in {x \in remoteLooks : x.pid = ThisProd}}

\* C21: in the looks view, when actions overlap and every write succeeds, no
\* local update is lost: once all have completed, the local list holds exactly
\* the looks the store holds for the production.
C21_NoLostUpdate ==
  (~loading /\ lpend = EmptyBag) =>
    /\ LocalIds = RemoteIds
    /\ Len(looks) = Cardinality(RemoteIds)

\* The identities of a list of looks, in the list's order.
IdsOf(list) == [k \in 1..Len(list) |-> list[k].id]

\* C22: in the looks view, after successful creations, moves and deletions that
\* do not overlap, reloading the looks in ascending order of sequence index
\* gives the order the local list shows.
C22_ReloadKeepsOrder ==
  (~loading /\ Idle) =>
    \A data \in SelectLooks(remoteLooks) : IdsOf(data) = IdsOf(Shown)

\* The production's rows in the store's schedule.
RemoteSchedule == {x \in remoteItems : x.pid = ThisProd}

\* The expansion just completed had its bulk delete fail.
InsertedAfterFailedDelete == last.op = "applyTemplate:ok" /\ last.ctx = "deleteFailed"

\* C23: in a confirmed template expansion nothing is inserted when the bulk
\* delete has failed, so the store never holds old items next to the template's
\* while the local list shows the template's items only.
C23_InsertOnlyAfterDelete ==
  /\ ~InsertedAfterFailedDelete
  /\ ~(/\ InsertedAfterFailedDelete
       /\ Range(scheduleItems) \subseteq RemoteSchedule
       /\ RemoteSchedule \ Range(scheduleItems) # {})

\* C24: in a confirmed template expansion whose bulk delete succeeded, a failed
\* insert raises no alert and changes neither the store nor the local list: the
\* list goes on showing the old items, none of which the store still holds; the
\* production's schedule in the store is empty when the list is still the one
\* the expansion started from.
C24_FailedInsertLeavesEmptySchedule ==
  [][(last'.op = "applyTemplate:error" /\ last'.ctx = "deleted") =>
       /\ ~last'.alert
       /\ UNCHANGED <<scheduleItems, remoteItems>>
       /\ \A k \in 1..Len(Answered.snap) : Answered.snap[k] \notin remoteItems'
       /\ scheduleItems' = Answered.snap =>
            (Len(scheduleItems') > 0 /\ RemoteSchedule' = {})
    ]_vars

\* the insert of a confirmed expansion has failed: two old items are shown, the
\* store has none
C24_Witness ==
  /\ last.op = "applyTemplate:error" /\ last.ctx = "deleted" /\ ~last.alert
  /\ Len(scheduleItems) = 2
  /\ RemoteSchedule = {}

\* Empty, or white space only.
Blank(s) == s \in {"", " "}

\* C25: addScheduleItem with a blank title or no start time, createLook with a
\* blank name and addCrewMember with a blank name or a blank role issue no
\* write and change nothing; every item the add form creates has a title that
\* is not blank and a start time.
C25_BlankInputsWriteNothing ==
  [][/\ (last'.op = "addScheduleItem" /\ (Blank(newItem.title) \/ newItem.start_time = "")) =>
          (last'.writes = 0 /\ UNCHANGED <<ops, schedVars>>)
     /\ (last'.op = "createLook" /\ Blank(newLookName)) =>
          (last'.writes = 0 /\ UNCHANGED <<ops, looksVars>>)
     /\ (last'.op = "addCrewMember" /\ (Blank(newCrew.name) \/ Blank(newCrew.role))) =>
          (last'.writes = 0 /\ UNCHANGED <<ops, sheetVars>>)
     /\ last'.op = "addScheduleItem:ok" =>
          /\ remoteItems' # remoteItems
          /\ \A x \in remoteItems' \ remoteItems :
               ~Blank(x.title) /\ x.start_time \in Range(Times)
    ]_vars

\* addScheduleItem was called with a title of white space: nothing is in flight
\* and the store has no item of the production
C25_Witness ==
  /\ last.op = "addScheduleItem" /\ last.writes = 0
  /\ newItem.title = " " /\ newItem.start_time # ""
  /\ spend = EmptyBag /\ RemoteSchedule = {}

\* A list without the entity of this identity, the others as they were.
Others(list, id) == SelectSeq(list, LAMBDA x : x.id # id)

\* The deleteLook request this step answers, when it is the only one in flight
\* and the list is still the one it was called on.
AloneOnItsList(r) ==
  /\ lpend = SetToBag({r}) /\ r.kind = "delete" /\ r.id = last'.arg
  /\ [k \in 1..Len(r.snap) |-> heap[r.snap[k]]] = Shown

\* The call-sheet request this step answers.
AnsweredCrew == CHOOSE r \in Pending(cpend) : cpend' (+) SetToBag({r}) = cpend

\* C26: deleteLook without confirmation issues no write and changes nothing. A
\* successful deleteLook, deleteScheduleItem or removeCrewMember removes the
\* entity of the given identity, and nothing else, from the store and, the list
\* being the one the handler was called on, from the list: the other entities
\* stay, in their order and with their sequence indices.
C26_DeleteRemovesOneEntity ==
  [][/\ (last'.op = "deleteLook" /\ last'.writes = 0) => UNCHANGED <<ops, looksVars>>
     /\ last'.op = "deleteLook:ok" =>
          /\ remoteLooks' = {x \in remoteLooks : x.id # last'.arg}
          /\ \A r \in Pending(lpend) :
               AloneOnItsList(r) =>
                 /\ last'.arg \in LocalIds
                 /\ [k \in 1..Len(looks') |-> heap'[looks'[k]]] = Others(Shown, last'.arg)
     /\ last'.op = "deleteScheduleItem:ok" =>
          /\ remoteItems' = {x \in remoteItems : x.id # last'.arg}
          /\ scheduleItems = Answered.snap =>
               scheduleItems' = Others(scheduleItems, last'.arg)
     /\ last'.op = "removeCrewMember:ok" =>
          /\ remoteCrew' = {x \in remoteCrew : x.id # last'.arg}
          /\ crew = AnsweredCrew.snap => crew' = Others(crew, last'.arg)
    ]_vars

\* the first of two looks has been deleted: the other is shown, and stored, with
\* the index 1 it had
C26_Witness ==
  /\ last.op = "deleteLook:ok" /\ last.arg = 1
  /\ Len(looks) = 1 /\ Shown[1].id = 2 /\ Shown[1].seq = 1
  /\ {<<x.id, x.seq>> : x \in {y \in remoteLooks : y.pid = ThisProd}} = {<<2, 1>>}

====
